---- MODULE Spec2Model ----
(***************************************************************************)
(* Model of the NECHTO v4.8 runtime measurement pipeline                   *)
(* (src/nechto_runtime): graph construction, candidate generation, the     *)
(* metric engine, the selector, M29 paradox detection, adaptive parameter  *)
(* learning and the PRRIP gate.                                            *)
(*                                                                         *)
(* Numbers.  The code computes with floats in [-1, 1] (a few metrics are   *)
(* larger).  The model uses fixed point: a value x is the integer          *)
(* x * Scale, products are divided back by Scale (rounding down).  The     *)
(* semantic-capital products are tiny, so SC and TSC are kept in units of  *)
(* 1 / (Scale * Scale).  Thresholds of the code (0.4, 0.6, 0.3, 1.5, ...)  *)
(* are whole numbers of 1/Scale, so x >= t and x < t are decided exactly.  *)
(*                                                                         *)
(* md5.  _hash_to_unit is a table over the (id, label, axis) strings the   *)
(* model can build; the entries are the values the code's md5 slice gives. *)
(*                                                                         *)
(* exp, log, roots of weighted sums.  attention_entropy, shadow_magnitude, *)
(* Stereoscopic_gap_max and the FLOW product are not computed; they are    *)
(* inputs of a measurement (an Oracle record), forced to the values the    *)
(* code fixes structurally (empty vector, single atom, no shadow atom,     *)
(* no present atom).                                                       *)
(***************************************************************************)
EXTENDS Integers, Sequences, FiniteSets, TLC

Scale == 1000

\* absent value of a float field: SemanticAtom fields set to None
NONE == -99999

----------------------------------------------------------------------------
(* Arithmetic helpers                                                      *)

Min2(a, b) == IF a <= b THEN a ELSE b
Max2(a, b) == IF a >= b THEN a ELSE b
Clamp(x, lo, hi) == Max2(lo, Min2(hi, x))
Abs(x) == IF x < 0 THEN -x ELSE x
Mul(a, b) == (a * b) \div Scale

\* Body applied to the value of e, computed once
With(e, Body(_)) == CHOOSE y \in {Body(v) : v \in {e}} : TRUE

\* a list built element by element, as the tuple of its elements
List(s) == s \o <<>>

RECURSIVE SumSeq(_)
SumSeq(s) == IF s = <<>> THEN 0 ELSE Head(s) + SumSeq(Tail(s))

RECURSIVE MaxSeq(_)
MaxSeq(s) == IF Len(s) = 1 THEN s[1] ELSE Max2(Head(s), MaxSeq(Tail(s)))

RECURSIVE MinSeq(_)
MinSeq(s) == IF Len(s) = 1 THEN s[1] ELSE Min2(Head(s), MinSeq(Tail(s)))

\* the last n entries of s, Python's s[-n:]
LastN(s, n) == IF Len(s) <= n THEN s ELSE SubSeq(s, Len(s) - n + 1, Len(s))

SelectIdx(s, keep(_)) ==
    LET F[i \in 0..Len(s)] ==
            IF i = 0 THEN <<>>
            ELSE IF keep(i) THEN Append(F[i - 1], s[i]) ELSE F[i - 1]
    IN  F[Len(s)]

RECURSIVE ISqrtFrom(_, _, _)
ISqrtFrom(n, lo, hi) ==
    IF lo >= hi THEN lo
    ELSE LET mid == (lo + hi + 1) \div 2
         IN  IF mid * mid <= n THEN ISqrtFrom(n, mid, hi) ELSE ISqrtFrom(n, lo, mid - 1)

\* floor(sqrt(n))
ISqrt(n) == ISqrtFrom(n, 0, 40000)

\* x ** 0.25 in fixed point
Root4(x) == ISqrt(ISqrt(x * Scale) * Scale)

----------------------------------------------------------------------------
(* _hash_to_unit, semantic_gravity_vector, ideal_direction                *)

\* round(_hash_to_unit(id:label:axis) * Scale) for axis 0..11
HashTable ==
    "seed_0:NECHTO" :> <<32, 457, 267, 195, 654, 734, 32, 919, 394, 833, 940, 761>> @@
    "seed_1:SCAV" :> <<854, 939, 939, 519, 774, 88, 347, 361, 943, 631, 662, 317>> @@
    "seed_2:TSC" :> <<637, 332, 591, 679, 539, 560, 384, 65, 397, 632, 482, 906>> @@
    "seed_3:FLOW" :> <<77, 66, 186, 625, 128, 2, 595, 101, 967, 231, 89, 740>> @@
    "seed_4:MU" :> <<767, 399, 36, 17, 354, 574, 998, 280, 857, 596, 32, 419>> @@
    "seed_5:ethics" :> <<542, 908, 462, 451, 811, 137, 507, 771, 440, 881, 584, 787>> @@
    "seed_6:shadow" :> <<267, 3, 696, 36, 822, 94, 665, 873, 73, 704, 578, 982>> @@
    "seed_7:entropy" :> <<430, 516, 616, 696, 223, 328, 220, 984, 737, 750, 848, 33>> @@
    "seed_8:identity" :> <<737, 477, 542, 716, 130, 93, 208, 478, 490, 402, 661, 834>> @@
    "seed_9:contour" :> <<430, 280, 837, 177, 706, 238, 132, 557, 428, 273, 842, 733>> @@
    "seed_10:gate" :> <<126, 653, 431, 391, 482, 595, 828, 281, 633, 139, 168, 562>> @@
    "seed_11:vector" :> <<336, 230, 463, 144, 576, 569, 26, 909, 486, 50, 521, 928>> @@
    "seed_12:stereoscopy" :> <<654, 28, 485, 947, 342, 195, 20, 99, 796, 347, 488, 994>> @@
    "seed_13:alignment" :> <<890, 877, 79, 581, 757, 617, 155, 536, 593, 485, 676, 214>> @@
    "seed_14:epistemic_honesty" :> <<370, 36, 531, 472, 154, 746, 276, 854, 121, 855, 186, 695>> @@
    "seed_15:Love>Logic" :> <<661, 291, 554, 279, 842, 307, 460, 713, 419, 734, 722, 964>> @@
    "seed_16:presence" :> <<974, 426, 955, 695, 798, 23, 196, 695, 615, 157, 116, 53>> @@
    "seed_17:reflexive" :> <<432, 858, 378, 68, 777, 884, 848, 287, 159, 11, 238, 371>> @@
    "seed_18:temporal" :> <<629, 334, 383, 58, 511, 8, 655, 91, 272, 535, 509, 357>> @@
    "seed_19:coherence" :> <<145, 156, 733, 798, 316, 251, 863, 12, 854, 624, 853, 415>> @@
    "n0:and" :> <<167, 798, 361, 205, 283, 164, 32, 891, 444, 785, 5, 64>> @@
    "n0:hud" :> <<290, 72, 53, 179, 416, 50, 101, 64, 473, 49, 77, 259>> @@
    "n0:code" :> <<479, 525, 686, 550, 690, 641, 433, 222, 488, 517, 890, 229>> @@
    "n0:respect" :> <<562, 321, 949, 427, 356, 60, 112, 772, 357, 355, 250, 193>> @@
    "n0:meaning" :> <<192, 828, 441, 211, 176, 667, 229, 240, 447, 42, 267, 807>> @@
    "n0:node0" :> <<551, 50, 784, 800, 368, 642, 705, 964, 126, 175, 843, 0>> @@
    "n1:and" :> <<45, 666, 768, 951, 96, 411, 81, 190, 426, 195, 515, 620>> @@
    "n1:hud" :> <<537, 98, 161, 841, 43, 182, 220, 478, 250, 355, 291, 547>> @@
    "n1:code" :> <<269, 399, 159, 618, 641, 949, 626, 653, 981, 454, 248, 841>> @@
    "n1:respect" :> <<698, 73, 715, 809, 207, 538, 126, 792, 257, 445, 103, 291>> @@
    "n1:meaning" :> <<355, 838, 598, 784, 374, 358, 301, 990, 393, 80, 184, 738>> @@
    "n1:node1" :> <<415, 891, 209, 744, 927, 160, 905, 279, 372, 192, 302, 3>> @@
    "n2:and" :> <<907, 663, 503, 24, 178, 501, 605, 713, 773, 714, 375, 237>> @@
    "n2:hud" :> <<982, 30, 443, 817, 244, 560, 359, 979, 355, 768, 761, 298>> @@
    "n2:code" :> <<520, 971, 966, 154, 313, 139, 143, 567, 707, 100, 74, 960>> @@
    "n2:respect" :> <<158, 899, 180, 92, 95, 520, 896, 239, 705, 137, 963, 304>> @@
    "n2:meaning" :> <<318, 468, 17, 488, 975, 287, 950, 658, 585, 635, 495, 618>> @@
    "n2:node2" :> <<664, 300, 679, 599, 424, 773, 80, 152, 69, 543, 203, 461>> @@
    "n3:and" :> <<189, 772, 325, 382, 351, 574, 105, 628, 263, 828, 26, 336>> @@
    "n3:hud" :> <<90, 82, 605, 659, 670, 597, 481, 721, 985, 804, 549, 182>> @@
    "n3:code" :> <<303, 993, 426, 176, 126, 464, 503, 380, 317, 723, 868, 487>> @@
    "n3:respect" :> <<499, 609, 765, 110, 677, 681, 492, 551, 677, 910, 486, 28>> @@
    "n3:meaning" :> <<57, 115, 335, 732, 706, 491, 508, 427, 367, 690, 158, 905>> @@
    "n3:node3" :> <<492, 265, 623, 587, 394, 843, 658, 218, 29, 310, 689, 875>> @@
    "n4:and" :> <<93, 330, 600, 302, 377, 671, 937, 912, 395, 323, 231, 166>> @@
    "n4:hud" :> <<64, 130, 984, 648, 819, 809, 270, 894, 640, 294, 68, 574>> @@
    "n4:code" :> <<80, 75, 564, 789, 293, 213, 526, 558, 200, 610, 617, 355>> @@
    "n4:respect" :> <<746, 848, 974, 53, 301, 642, 12, 464, 813, 667, 420, 326>> @@
    "n4:meaning" :> <<309, 998, 234, 632, 349, 305, 768, 562, 809, 951, 763, 422>> @@
    "n4:node4" :> <<990, 710, 559, 199, 36, 955, 982, 365, 609, 116, 739, 583>>

hash_to_unit(id, label, axis) == HashTable[id \o ":" \o label][axis + 1]

INTENT_PROFILES ==
    "implement"       :> <<800, 0, 400, 500, 300, 200, 800, 900, 200, 900, 600, 200>> @@
    "explain"         :> <<1000, 0, 500, 400, 300, 200, 700, 600, 0, 800, 600, 0>> @@
    "audit"           :> <<900, 0, 300, 400, 500, 100, 900, 700, 0, 900, 400, 100>> @@
    "explore_paradox" :> <<600, 0, 700, 200, 900, 800, 500, 300, 0, 900, 800, 400>> @@
    "compress"        :> <<800, 0, 300, 400, 400, 100, 800, 800, 0, 800, 400, 100>>

ideal_direction(intent) ==
    IF intent \in DOMAIN INTENT_PROFILES THEN INTENT_PROFILES[intent]
    ELSE INTENT_PROFILES["implement"]

\* the vector of an atom with id, label and a defined harm_probability hp
semantic_gravity_vector(id, label, hp) ==
    [i \in 1..12 |->
        IF i - 1 = 1 THEN Max2(0, Min2(Scale, hp))
        ELSE IF i - 1 \in {3, 8} THEN 2 * hash_to_unit(id, label, i - 1) - Scale
        ELSE hash_to_unit(id, label, i - 1)]

Dot(v, w) == SumSeq([i \in 1..12 |-> v[i] * w[i]])

\* Euclidean norm of a vector, in 1/Scale
Norm(v) == ISqrt(Dot(v, v))

\* sum(a * b for a, b in zip(normalize(v), normalize(ideal))), clamped to [-1, 1]
Cosine(v, ideal) ==
    LET nv == Norm(v)
        ni == Norm(ideal)
    IN  IF nv = 0 \/ ni = 0 THEN 0
        ELSE Clamp((((Dot(v, ideal) * 100) \div nv) * 10) \div ni, -Scale, Scale)

----------------------------------------------------------------------------
(* types.py: SemanticAtom, Edge, Vector                                    *)

NoMarker == [paradox_type |-> "none", detected_at_cycle |-> 0, sustained_cycles |-> 0]

\* SemanticAtom.evidence: observed_in_contour, whether inferences is
\* non-empty, and the paradox marker
Evidence(observed, inferred) ==
    [observed_in_contour |-> observed, inferences |-> inferred, paradox_marker |-> NoMarker]

SemanticAtom(id, label, status, ia, hp, tags, avoided, ev) ==
    [id |-> id, label |-> label, status |-> status, identity_alignment |-> ia,
     harm_probability |-> hp, tags |-> tags, avoided_marker |-> avoided, evidence |-> ev]

Edge(from, to, type, weight) ==
    [from_node |-> from, to_node |-> to, type |-> type, weight |-> weight]

Vector(id, seed_nodes, nodes, edges) ==
    [id |-> id, seed_nodes |-> seed_nodes, nodes |-> nodes, edges |-> edges]

NodeIds(nodes) == {nodes[i].id : i \in DOMAIN nodes}

----------------------------------------------------------------------------
(* Ethics functions (Part 11.6 / E)                                        *)

TAG_HARM_MAX ==
    "HARM" :> 900 @@ "MANIPULATION" :> 700 @@ "DECEPTION" :> 600 @@ "BLOCKING" :> 500 @@
    "EMOTION" :> 100 @@ "INTENT" :> 200 @@ "WITNESS" :> 0

RECURSIVE MaxOver(_, _)
MaxOver(S, f) ==
    IF S = {} THEN 0
    ELSE LET x == CHOOSE y \in S : TRUE
         IN  Max2(IF x \in DOMAIN f THEN f[x] ELSE 0, MaxOver(S \ {x}, f))

\* connectedBlocking: some connected node has status BLOCKING
harm_probability(tags, connectedBlocking) ==
    LET base_harm == MaxOver(tags, TAG_HARM_MAX)
        penalty == IF connectedBlocking THEN 200 ELSE 0
    IN  Max2(0, Min2(Scale, base_harm + penalty))

\* labels of the model that contain "respect" or "boundary"
BoundaryLabels == {"respect", "boundary"}

identity_alignment(label, tags, status, avoided) ==
    LET positive ==
            (IF "WITNESS" \in tags THEN 300 ELSE 0)
          + (IF "INTENT" \in tags /\ "MANIPULATION" \notin tags THEN 200 ELSE 0)
          + (IF status = "ANCHORED" THEN 300 ELSE 0)
          + (IF label \in BoundaryLabels THEN 200 ELSE 0)
        negative ==
            (IF "MANIPULATION" \in tags THEN 500 ELSE 0)
          + (IF "DECEPTION" \in tags THEN 600 ELSE 0)
          + (IF status = "BLOCKING" THEN 400 ELSE 0)
          + (IF avoided THEN 300 ELSE 0)
    IN  Max2(-Scale, Min2(Scale, positive - negative))

ETHICS_THRESHOLD == 400

\* ethical_coefficient reading a missing field as the dataclass default 0.0
\* instead of the worst case
EthicalCoefficientDefaults(nodes) ==
    IF Len(nodes) = 0 THEN 100
    ELSE LET harms == [i \in DOMAIN nodes |->
                          IF nodes[i].harm_probability = NONE THEN 0
                          ELSE nodes[i].harm_probability]
             aligns == [i \in DOMAIN nodes |->
                           IF nodes[i].identity_alignment = NONE THEN 0
                           ELSE nodes[i].identity_alignment]
             coeff == (SumSeq(aligns) * (Scale - MaxSeq(harms))) \div (Len(aligns) * Scale)
         IN  Max2(100, Min2(Scale, coeff))

\* ethical_coefficient of a node list; the empty list stands for None,
\* a non-Vector and a vector without nodes
ethical_coefficient(nodes) ==
    IF Len(nodes) = 0 THEN 100
    ELSE LET missing(i) == nodes[i].harm_probability = NONE \/ nodes[i].identity_alignment = NONE
             harms == [i \in DOMAIN nodes |-> IF missing(i) THEN Scale ELSE nodes[i].harm_probability]
             aligns == [i \in DOMAIN nodes |-> IF missing(i) THEN -Scale ELSE nodes[i].identity_alignment]
             max_harm == MaxSeq(harms)
             harm_penalty == Scale - max_harm
             \* mean_alignment * harm_penalty, one rounding
             coeff == (SumSeq(aligns) * harm_penalty) \div (Len(aligns) * Scale)
         IN  Max2(100, Min2(Scale, coeff))

\* executable without the status check
ExecutableByCoefficient(nodes) ==
    ~ (ethical_coefficient(nodes) < ETHICS_THRESHOLD)

executable(nodes) ==
    /\ ~ (ethical_coefficient(nodes) < ETHICS_THRESHOLD)
    /\ \A i \in DOMAIN nodes : nodes[i].status # "ETHICALLY_BLOCKED"

----------------------------------------------------------------------------
(* graph.py: parse_text_to_graph; seed.py: canon_seed_atoms                *)

\* the keywords of _OBSERVED_KEYWORDS / _INFERRED_KEYWORDS / _UNTESTABLE_KEYWORDS
\* among the tokens of the model
OBSERVED_KEYWORDS == {"code", "test", "spec", "gate"}
INFERRED_KEYWORDS == {"meaning", "reason", "model"}
UNTESTABLE_KEYWORDS == {"consciousness", "qualia", "soul"}

\* no token of the model contains one of . _ / \
classify_evidence(token) ==
    IF token \in OBSERVED_KEYWORDS THEN Evidence(TRUE, FALSE)
    ELSE IF token \in INFERRED_KEYWORDS THEN Evidence(FALSE, TRUE)
    ELSE IF token \in UNTESTABLE_KEYWORDS THEN Evidence(FALSE, FALSE)
    ELSE Evidence(FALSE, FALSE)

\* the parser that leaves its atoms FLOATING and misaligned
ParseTextFloating(tokens) ==
    [atoms |-> List([i \in 1..Len(tokens) |->
                       SemanticAtom("n" \o ToString(i - 1), tokens[i], "FLOATING", -500,
                                    harm_probability({"WITNESS"}, FALSE), {"WITNESS"}, FALSE,
                                    classify_evidence(tokens[i]))]),
     edges |-> List([i \in 1..Max2(Len(tokens) - 1, 0) |->
                       Edge("n" \o ToString(i - 1), "n" \o ToString(i), "SUPPORTS", 1000)])]

\* text is the sequence of whitespace-separated tokens
parse_text_to_graph(tokens) ==
    LET atom(idx) ==
            LET token == tokens[idx + 1]
                tags == {"WITNESS"}
            IN  SemanticAtom("n" \o ToString(idx), token, "ANCHORED",
                             identity_alignment(token, tags, "ANCHORED", FALSE),
                             harm_probability(tags, FALSE),
                             tags, FALSE, classify_evidence(token))
    IN  [atoms |-> List([i \in 1..Len(tokens) |-> atom(i - 1)]),
         edges |-> List([i \in 1..Max2(Len(tokens) - 1, 0) |->
                        Edge("n" \o ToString(i - 1), "n" \o ToString(i), "SUPPORTS", 1000)])]

CANON_TERMS == <<
    [label |-> "NECHTO", tags |-> {"WITNESS", "INTENT"}, ia |-> 600, ep |-> "observed"],
    [label |-> "SCAV", tags |-> {"WITNESS"}, ia |-> 500, ep |-> "observed"],
    [label |-> "TSC", tags |-> {"WITNESS"}, ia |-> 500, ep |-> "observed"],
    [label |-> "FLOW", tags |-> {"WITNESS"}, ia |-> 400, ep |-> "observed"],
    [label |-> "MU", tags |-> {"WITNESS"}, ia |-> 300, ep |-> "observed"],
    [label |-> "ethics", tags |-> {"WITNESS", "EMOTION"}, ia |-> 600, ep |-> "observed"],
    [label |-> "shadow", tags |-> {"WITNESS"}, ia |-> 200, ep |-> "observed"],
    [label |-> "entropy", tags |-> {"WITNESS"}, ia |-> 300, ep |-> "observed"],
    [label |-> "identity", tags |-> {"WITNESS", "INTENT"}, ia |-> 500, ep |-> "observed"],
    [label |-> "contour", tags |-> {"WITNESS"}, ia |-> 400, ep |-> "observed"],
    [label |-> "gate", tags |-> {"WITNESS"}, ia |-> 500, ep |-> "observed"],
    [label |-> "vector", tags |-> {"WITNESS"}, ia |-> 400, ep |-> "observed"],
    [label |-> "stereoscopy", tags |-> {"WITNESS"}, ia |-> 400, ep |-> "inferred"],
    [label |-> "alignment", tags |-> {"WITNESS"}, ia |-> 500, ep |-> "inferred"],
    [label |-> "epistemic_honesty", tags |-> {"WITNESS", "EMOTION"}, ia |-> 600, ep |-> "inferred"],
    [label |-> "Love>Logic", tags |-> {"WITNESS", "EMOTION"}, ia |-> 700, ep |-> "inferred"],
    [label |-> "presence", tags |-> {"WITNESS", "EMOTION"}, ia |-> 500, ep |-> "inferred"],
    [label |-> "reflexive", tags |-> {"WITNESS"}, ia |-> 300, ep |-> "inferred"],
    [label |-> "temporal", tags |-> {"WITNESS"}, ia |-> 300, ep |-> "inferred"],
    [label |-> "coherence", tags |-> {"WITNESS"}, ia |-> 400, ep |-> "inferred"]
>>

canon_seed_atoms ==
    LET atom(idx) ==
            LET term == CANON_TERMS[idx + 1]
            IN  SemanticAtom("seed_" \o ToString(idx), term.label, "ANCHORED", term.ia, 0,
                             term.tags, FALSE,
                             Evidence(term.ep = "observed", term.ep = "inferred"))
    IN  [atoms |-> List([i \in 1..Len(CANON_TERMS) |-> atom(i - 1)]),
         edges |-> List([i \in 1..(Len(CANON_TERMS) - 1) |->
                        Edge("seed_" \o ToString(i - 1), "seed_" \o ToString(i), "SUPPORTS", 600)])]

\* measure_text, Phase 0: the atom pool of a text
Pool(tokens, use_seed) ==
    LET g == parse_text_to_graph(tokens)
        s == canon_seed_atoms
        bridge == IF Len(s.atoms) > 0 /\ Len(g.atoms) > 0
                  THEN <<Edge(s.atoms[Len(s.atoms)].id, g.atoms[1].id, "SUPPORTS", 400)>>
                  ELSE <<>>
    IN  IF use_seed
        THEN [atoms |-> s.atoms \o g.atoms, edges |-> s.edges \o bridge \o g.edges]
        ELSE g

----------------------------------------------------------------------------
(* Multi-vector candidate generation (M24)                                 *)

\* the filter that keeps an edge as soon as one endpoint is in the sub-graph
EdgesTouching(edges, ids) ==
    SelectSeq(edges, LAMBDA e : e.from_node \in ids \/ e.to_node \in ids)

EdgesWithin(edges, ids) ==
    SelectSeq(edges, LAMBDA e : e.from_node \in ids /\ e.to_node \in ids)

\* candidate k of the first loop: drop one atom
DropCandidate(atoms, edges, k) ==
    LET L == Len(atoms)
        seed_idx == k % L
        drop_idx == (L - k) % L
        sub_atoms == SelectIdx(atoms, LAMBDA i : i - 1 # drop_idx)
        sub_ids == NodeIds(sub_atoms)
    IN  Vector("V" \o ToString(k),
               IF Len(sub_atoms) > 0
               THEN <<sub_atoms[(seed_idx % Len(sub_atoms)) + 1].id>> ELSE <<>>,
               sub_atoms, EdgesWithin(edges, sub_ids))

\* candidate k of the second loop: one half of the pool
HalfCandidate(atoms, edges, k) ==
    LET mid == Len(atoms) \div 2
        sub == IF k % 2 = 0 THEN SubSeq(atoms, 1, mid) ELSE SubSeq(atoms, mid + 1, Len(atoms))
    IN  Vector("V" \o ToString(k),
               IF Len(sub) > 0 THEN <<sub[1].id>> ELSE <<>>,
               sub, EdgesWithin(edges, NodeIds(sub)))

generate_candidate_vectors(atoms, edges, n_vectors) ==
    IF Len(atoms) = 0 THEN << Vector("V0", <<>>, <<>>, <<>>) >>
    ELSE LET first == Min2(n_vectors, Len(atoms))
             count == IF Len(atoms) >= 2 THEN Max2(first, n_vectors) ELSE Max2(first, 1)
         IN  List([k1 \in 1..Max2(count, 1) |->
                 LET k == k1 - 1
                 IN  IF k = 0 THEN Vector("V0", <<atoms[1].id>>, atoms, edges)
                     ELSE IF k < first THEN DropCandidate(atoms, edges, k)
                     ELSE HalfCandidate(atoms, edges, k)])

----------------------------------------------------------------------------
(* types.py: State, AdaptiveParameters                                     *)

\* maxlen of the alignment, gap, MU-density and flow deques
HISTORY_MAXLEN == 10
\* maxlen of the chosen_vectors deque
CHOSEN_MAXLEN == 20

\* deque(maxlen).append
DequeAppend(d, x, maxlen) ==
    IF Len(d) >= maxlen THEN Append(Tail(d), x) ELSE Append(d, x)

\* State(): the fresh state
FreshState ==
    [alignment_history |-> <<>>, gap_max_history |-> <<>>, mu_density_history |-> <<>>,
     flow_history |-> <<>>, chosen_vectors |-> <<>>, epistemic_claims |-> <<>>,
     alpha_history |-> <<>>, gamma_history |-> <<>>, lambda_history |-> <<>>,
     beta_retro_history |-> <<>>, fail_history |-> <<>>, protocol_deviations |-> <<>>, paradox_markers |-> <<>>,
     meta_sensor_history |-> <<>>, current_cycle |-> 0]

\* AdaptiveParameters(): alpha=0.5, beta=0.5, gamma=0.4, delta=0.6, lambda=0.8, beta_retro=0.2
DefaultParams ==
    [alpha |-> 500, beta |-> 500, gamma |-> 400, delta |-> 600,
     lambda_val |-> 800, beta_retro |-> 200]

EpistemicClaim(topic, observability, stance, reason, linked_nodes) ==
    [topic |-> topic, scope |-> "local", observability |-> observability,
     stance |-> stance, reason |-> reason, linked_nodes |-> linked_nodes]

----------------------------------------------------------------------------
(* FLOW (Part 11.3 / B)                                                    *)

RECURSIVE ICbrtFrom(_, _, _)
ICbrtFrom(n, lo, hi) ==
    IF lo >= hi THEN lo
    ELSE LET mid == (lo + hi + 1) \div 2
         IN  IF mid * mid * mid <= n THEN ICbrtFrom(n, mid, hi) ELSE ICbrtFrom(n, lo, mid - 1)

\* x ** (1/3) in fixed point, 0 <= x <= Scale
Root3(x) == ICbrtFrom(x * Scale * Scale, 0, Scale)

\* max(1, N * (N - 1) / 2)
PossibleEdges(N) == Max2(1, (N * (N - 1)) \div 2)

PRESENCE_TAGS == {"WITNESS", "EMOTION", "INTENT"}

\* the value compute_flow returns; challenge_balance is the Gaussian
\* exp(-((difficulty - optimal_difficulty) ** 2) / (2 * sigma * sigma)), an input
FlowValue(vector, st, challenge_balance) ==
    LET N == Len(vector.nodes)
        edge_density == (Len(vector.edges) * Scale) \div PossibleEdges(N)
        base_complexity == Min2(Scale, Max2(0, 200 + (800 * N) \div 60))
        difficulty == Min2(Scale, Max2(0, base_complexity + Mul(200, edge_density)))
        current_skill == IF Len(st.flow_history) > 0
                         THEN SumSeq(st.flow_history) \div Len(st.flow_history)
                         ELSE 600
        skill_match == Scale - Abs(difficulty - current_skill)
        present == Cardinality({i \in DOMAIN vector.nodes :
                                    vector.nodes[i].tags \cap PRESENCE_TAGS # {}})
        presence_density == (present * Scale) \div N
    IN  IF N = 0 THEN 0
        ELSE Root3(Mul(Mul(Max2(0, skill_match), challenge_balance), presence_density))

\* compute_flow: the state after the call (flow appended unless the vector is empty)
FlowState(vector, st, challenge_balance) ==
    IF Len(vector.nodes) = 0 THEN st
    ELSE [st EXCEPT !.flow_history =
              DequeAppend(@, FlowValue(vector, st, challenge_balance), HISTORY_MAXLEN)]

----------------------------------------------------------------------------
(* GED proxy (Part 11.4 / C) and FP_recursive (Part 4.4)                   *)

EdgePairs(edges) == {<<edges[i].from_node, edges[i].to_node>> : i \in DOMAIN edges}

ged_proxy_norm(current, future) ==
    LET V_curr == NodeIds(current.nodes)
        V_fut == NodeIds(future.nodes)
        E_curr == EdgePairs(current.edges)
        E_fut == EdgePairs(future.edges)
        node_sim == IF V_curr \cup V_fut # {}
                    THEN (Cardinality(V_curr \cap V_fut) * Scale) \div Cardinality(V_curr \cup V_fut)
                    ELSE Scale
        edge_sim == IF E_curr \cup E_fut # {}
                    THEN (Cardinality(E_curr \cap E_fut) * Scale) \div Cardinality(E_curr \cup E_fut)
                    ELSE Scale
        ged_proxy == Scale - (node_sim + edge_sim) \div 2
    IN  IF V_curr = {} /\ V_fut = {} THEN 0
        ELSE Max2(0, Min2(Scale, ged_proxy))

\* the vector of a node
NodeVec(a) == semantic_gravity_vector(a.id, a.label, a.harm_probability)

\* axis (0-based) of every node
AxisVals(nodes, axis) == [i \in DOMAIN nodes |-> NodeVec(nodes[i])[axis + 1]]

\* index of the first maximum: uncertainties.sort(reverse=True) is stable
FirstMaxIdx(vals) ==
    CHOOSE i \in DOMAIN vals :
        /\ \A j \in DOMAIN vals : vals[j] <= vals[i]
        /\ \A j \in 1..(i - 1) : vals[j] < vals[i]

compute_expected_influence(vector) ==
    IF Len(vector.nodes) < 2 THEN 0
    ELSE LET drop == FirstMaxIdx(AxisVals(vector.nodes, 4))
             drop_id == vector.nodes[drop].id
             future_nodes == SelectIdx(vector.nodes, LAMBDA i : i # drop)
             future_edges == SelectSeq(vector.edges,
                                 LAMBDA e : e.from_node # drop_id /\ e.to_node # drop_id)
         IN  ged_proxy_norm(vector,
                 Vector(vector.id \o "_future", vector.seed_nodes, future_nodes, future_edges))

compute_fp_recursive(vector, params) ==
    LET N == Len(vector.nodes)
        novelty == SumSeq(AxisVals(vector.nodes, 5)) \div N
        edge_types == {vector.edges[i].type : i \in DOMAIN vector.edges}
        generativity == (Cardinality(edge_types) * Scale) \div 6
        temp_vals == AxisVals(vector.nodes, 8)
        temporal_horizon == IF N > 1 THEN Max2(100, MaxSeq(temp_vals) - MinSeq(temp_vals))
                            ELSE 100
        influence == compute_expected_influence(vector)
        fp == Mul(Mul(novelty, generativity), temporal_horizon) + Mul(params.beta_retro, influence)
    IN  IF N = 0 THEN 0 ELSE Max2(0, Min2(Scale, fp))

----------------------------------------------------------------------------
(* Adaptive parameter learning (Part 3.5 / Phase 12)                       *)

\* in percent
EMA_DECAY_ALPHA == 15
MOMENTUM_FACTOR == 90
LEARNING_RATE == 10

exponential_moving_average(history, new_value, decay) ==
    IF Len(history) = 0 THEN new_value
    ELSE (decay * new_value + (100 - decay) * history[Len(history)]) \div 100

momentum_update(current, target, momentum) ==
    (momentum * current + (100 - momentum) * target) \div 100

RECURSIVE Pow2(_)
Pow2(n) == IF n = 0 THEN 1 ELSE 2 * Pow2(n - 1)

\* sum(g * w) / sum(weights) with weights 0.5 ** i, i = len-1 .. 0
WeightedMean(recent) ==
    SumSeq([j \in DOMAIN recent |-> recent[j] * Pow2(j - 1)]) \div (Pow2(Len(recent)) - 1)

\* lambda without the clamp to [0.5, 1.0]
NewLambdaUnclamped(prev_lambda, effect) ==
    prev_lambda + (LEARNING_RATE * (effect - 500)) \div 100

\* new_lambda = max(0.5, min(1.0, prev_lambda + LEARNING_RATE * (effect - 0.5)))
NewLambda(prev_lambda, effect) ==
    LET delta_lambda == (LEARNING_RATE * (effect - 500)) \div 100
    IN  Max2(500, Min2(Scale, prev_lambda + delta_lambda))

\* the parameters update_adaptive_parameters returns
UpdatedParams(params, st, metrics) ==
    LET ri == metrics.SCAV_health
        alpha_values == [j \in DOMAIN LastN(st.alpha_history, 10) |-> LastN(st.alpha_history, 10)[j][1]]
        new_alpha == Max2(0, Min2(Scale,
                         exponential_moving_average(alpha_values, ri, EMA_DECAY_ALPHA)))
        urgency == Scale - metrics.Ethical_score_candidates
        target_gamma == Max2(200, Min2(800, 200 + Mul(600, urgency)))
        new_gamma == momentum_update(params.gamma, target_gamma, MOMENTUM_FACTOR)
        effect == metrics.Stereoscopic_alignment
        new_lambda == NewLambda(params.lambda_val, effect)
        new_beta_retro ==
            IF Len(st.gap_max_history) > 0
            THEN LET max_gap == MaxSeq(st.gap_max_history)
                     weighted_mean == WeightedMean(LastN(st.gap_max_history, 5))
                 IN  Max2(0, Min2(500, (weighted_mean * Scale) \div Max2(Scale, max_gap + Scale)))
            ELSE params.beta_retro
    IN  [alpha |-> new_alpha, beta |-> Scale - new_alpha,
         gamma |-> new_gamma, delta |-> Scale - new_gamma,
         lambda_val |-> new_lambda, beta_retro |-> new_beta_retro]

\* update_adaptive_parameters: the new parameters and the state with the
\* four parameter histories appended
update_adaptive_parameters(params, st, metrics) ==
    LET p == UpdatedParams(params, st, metrics)
        cycle == st.current_cycle
    IN  [params |-> p,
         state |-> [st EXCEPT !.alpha_history = Append(@, <<p.alpha, cycle>>),
                              !.gamma_history = Append(@, <<p.gamma, cycle>>),
                              !.lambda_history = Append(@, <<p.lambda_val, cycle>>),
                              !.beta_retro_history = Append(@, <<p.beta_retro, cycle>>)]]

----------------------------------------------------------------------------
(* M29 paradox detection / MU assignment                                   *)

THRESHOLD_CYCLES == 3

AllBelow(s, t) == \A i \in DOMAIN s : s[i] < t
AllAbove(s, t) == \A i \in DOMAIN s : s[i] > t

SustainedMisalignment(st) == AllBelow(LastN(st.alignment_history, THRESHOLD_CYCLES), 300)

SustainedGap(st) ==
    LET gap_recent == LastN(st.gap_max_history, THRESHOLD_CYCLES)
    IN  IF Len(gap_recent) >= THRESHOLD_CYCLES THEN AllAbove(gap_recent, 1500) ELSE FALSE

\* detection without the check that 3 cycles are recorded
DetectWithoutLength(st) ==
    SustainedMisalignment(st) \/ SustainedGap(st)

detect_sustained_contradiction(st) ==
    IF Len(st.alignment_history) < THRESHOLD_CYCLES THEN FALSE
    ELSE SustainedMisalignment(st) \/ SustainedGap(st)

\* the flip condition without the status test
MuFlipsAnyStatus(a) == a.identity_alignment < 0

\* the flip condition dropped: every atom of the winner becomes MU
MuFlipsEveryAtom(a) == TRUE

\* the atoms assign_mu_status flips
MuFlips(a) == a.status = "FLOATING" /\ a.identity_alignment < 0

\* atom.identity_alignment < 0 on None raises TypeError
MuRaises(a) == a.status = "FLOATING" /\ a.identity_alignment = NONE

\* index of the first atom on which the loop raises, 0 if none
FirstRaise(nodes) ==
    IF \E i \in DOMAIN nodes : MuRaises(nodes[i])
    THEN CHOOSE i \in DOMAIN nodes :
             MuRaises(nodes[i]) /\ \A j \in 1..(i - 1) : ~ MuRaises(nodes[j])
    ELSE 0

\* the type that never reports both conditions
ParadoxTypeAlignmentFirst(st) ==
    IF SustainedMisalignment(st) THEN "alignment" ELSE "gap"

\* paradox_type of the ParadoxMarker, once the contradiction is detected
ParadoxType(st) ==
    IF SustainedMisalignment(st) /\ SustainedGap(st) THEN "both"
    ELSE IF SustainedMisalignment(st) THEN "alignment"
    ELSE "gap"

\* assign_mu_status: the vector's nodes and the state after the call, and
\* whether the call raised
assign_mu_status(vector, st) ==
    IF ~ detect_sustained_contradiction(st)
    THEN [nodes |-> vector.nodes, state |-> st, raised |-> FALSE]
    ELSE LET paradox_type == ParadoxType(st)
             stop == FirstRaise(vector.nodes)
             done(i) == stop = 0 \/ i < stop
             flipped(i) == done(i) /\ MuFlips(vector.nodes[i])
             marker == [paradox_type |-> paradox_type,
                        detected_at_cycle |-> st.current_cycle,
                        sustained_cycles |-> 3]
             nodes == [i \in DOMAIN vector.nodes |->
                           IF flipped(i)
                           THEN [vector.nodes[i] EXCEPT !.status = "MU",
                                                        !.evidence.paradox_marker = marker]
                           ELSE vector.nodes[i]]
             claims == [i \in DOMAIN vector.nodes |->
                           EpistemicClaim("paradox:" \o vector.nodes[i].label, "inferred", "MU",
                                          <<"Detected sustained contradiction", paradox_type>>,
                                          <<vector.nodes[i].id>>)]
             new_claims == SelectIdx(claims, flipped)
             pm == [paradox_type |-> paradox_type, sustained_cycles |-> 3,
                    tsc_direction |-> "conflict", scav_direction |-> "conflict"]
         IN  [nodes |-> nodes,
              state |-> [st EXCEPT !.epistemic_claims = @ \o new_claims,
                                   !.paradox_markers = IF stop = 0 THEN Append(@, pm) ELSE @],
              raised |-> stop # 0]

----------------------------------------------------------------------------
(* Fail codes (Part 8)                                                     *)

FAIL_CODES ==
    "FAIL_ETHICAL_COLLAPSE" :>
        [cause |-> "Ethical_score_candidates < 0.4",
         next |-> "Rephrase task within non-harm boundaries; propose high-ethics V."] @@
    "FAIL_ETHICAL_STALL" :>
        [cause |-> "Blocked_fraction > 0.6",
         next |-> "Narrow space, replace candidates, reduce risk/harm."] @@
    "FAIL_PARADOX_OVERLOAD" :>
        [cause |-> "Mu_density > 0.3", next |-> "QMM_PARADOX_COLLAPSE / simplification."] @@
    "FAIL_SHADOW_AVOIDANCE_CRITICAL" :>
        [cause |-> "shadow_magnitude > 0.7 and SCAV_health < 0.3",
         next |-> "Request consent for shadow exploration or change vector."] @@
    "FAIL_FLOW_IMPOSSIBLE" :>
        [cause |-> "FLOW < 0.1 (5 cycles)", next |-> "Pause / change activity / change difficulty."] @@
    "FAIL_STEREOSCOPIC_MISMATCH" :>
        [cause |-> "alignment < 0.3 or gap_max > 1.5 sustained without integration",
         next |-> "Activate M29 (MU), propose third vector."] @@
    "FAIL_VECTOR_DECOHERENCE" :>
        [cause |-> "CI/consistency below threshold", next |-> "Vector stabilization or re-assembly."] @@
    "FAIL_TEMPORAL_COLLAPSE" :>
        [cause |-> "TI low / FP unreliable / chaotic bifurcations",
         next |-> "Lower temporal_resolution, narrow horizon, update candidates."] @@
    "FAIL_OPERATIONALIZATION_MISSING" :>
        [cause |-> "Missing runnable definitions A-E for gate-critical metrics",
         next |-> "Use PART 11 REFERENCE IMPLEMENTATION or mark SIMULATION_ONLY."]

CodeIf(cond, code) == IF cond THEN <<code>> ELSE <<>>

\* the codes with every threshold inclusive
FailCodesInclusive(metrics, st) ==
       CodeIf(metrics.Ethical_score_candidates <= 400, "FAIL_ETHICAL_COLLAPSE")
    \o CodeIf(metrics.Blocked_fraction >= 600, "FAIL_ETHICAL_STALL")
    \o CodeIf(metrics.Mu_density >= 300, "FAIL_PARADOX_OVERLOAD")
    \o CodeIf(metrics.shadow_magnitude >= 700 /\ metrics.SCAV_health <= 300,
              "FAIL_SHADOW_AVOIDANCE_CRITICAL")
    \o CodeIf(Len(st.flow_history) >= 5 /\ AllBelow(LastN(st.flow_history, 5), 101),
              "FAIL_FLOW_IMPOSSIBLE")
    \o CodeIf(detect_sustained_contradiction(st), "FAIL_STEREOSCOPIC_MISMATCH")
    \o CodeIf(metrics.CI <= 200, "FAIL_VECTOR_DECOHERENCE")
    \o CodeIf(metrics.TI <= 200, "FAIL_TEMPORAL_COLLAPSE")

determine_fail_codes(metrics, st) ==
       CodeIf(metrics.Ethical_score_candidates < 400, "FAIL_ETHICAL_COLLAPSE")
    \o CodeIf(metrics.Blocked_fraction > 600, "FAIL_ETHICAL_STALL")
    \o CodeIf(metrics.Mu_density > 300, "FAIL_PARADOX_OVERLOAD")
    \o CodeIf(metrics.shadow_magnitude > 700 /\ metrics.SCAV_health < 300,
              "FAIL_SHADOW_AVOIDANCE_CRITICAL")
    \o CodeIf(Len(st.flow_history) >= 5 /\ AllBelow(LastN(st.flow_history, 5), 100),
              "FAIL_FLOW_IMPOSSIBLE")
    \o CodeIf(detect_sustained_contradiction(st), "FAIL_STEREOSCOPIC_MISMATCH")
    \o CodeIf(metrics.CI < 200, "FAIL_VECTOR_DECOHERENCE")
    \o CodeIf(metrics.TI < 200, "FAIL_TEMPORAL_COLLAPSE")

----------------------------------------------------------------------------
(* measure_vector                                                          *)

\* acc * f / Scale for acc in 1/(Scale*Scale), without overflow
MulU(acc, f) == (acc \div Scale) * f + ((acc % Scale) * f) \div Scale

\* round(x, 4) of a value in 1/(Scale*Scale): the result is in 1/10000
Round4(x) == (x + 50) \div 100

HasShadowAtom(nodes) ==
    \E i \in DOMAIN nodes : nodes[i].identity_alignment < 0 \/ nodes[i].status = "AVOIDED"

\* where measure_vector raises TypeError on an undefined field:
\* "harm" in semantic_gravity_vector (before any state change),
\* "alignment" in the attention weights (after compute_flow), else "none"
MVRaise(nodes) ==
    IF \E i \in DOMAIN nodes : nodes[i].harm_probability = NONE THEN "harm"
    ELSE IF \E i \in DOMAIN nodes : nodes[i].identity_alignment = NONE THEN "alignment"
    ELSE "none"

\* per-atom claims of Appendix E
AtomClaim(a) ==
    LET observability == IF a.evidence.observed_in_contour THEN "observed"
                         ELSE IF a.evidence.inferences THEN "inferred"
                         ELSE "untestable"
        stance == IF a.evidence.observed_in_contour THEN "affirmed"
                  ELSE IF a.evidence.inferences THEN "agnostic"
                  ELSE IF a.evidence.paradox_marker # NoMarker THEN "MU" ELSE "agnostic"
    IN  EpistemicClaim(a.label, observability, stance, <<"Status", a.status, a.tags>>, <<a.id>>)

\* the gate without the SCAV_health condition
GatePassNoHealth(metrics, nodes) ==
    /\ metrics.Ethical_score_candidates >= 400
    /\ metrics.Blocked_fraction <= 600
    /\ metrics.Mu_density <= 300
    /\ \A i \in DOMAIN nodes : nodes[i].status # "BLOCKING"

\* the PRRIP gate (Part 10.1)
GatePass(metrics, nodes) ==
    /\ metrics.Ethical_score_candidates >= 400
    /\ metrics.Blocked_fraction <= 600
    /\ metrics.Mu_density <= 300
    /\ metrics.SCAV_health >= 300
    /\ \A i \in DOMAIN nodes : nodes[i].status # "BLOCKING"

ParamsContract(params) ==
    [alpha |-> params.alpha, beta |-> params.beta, gamma |-> params.gamma,
     delta |-> params.delta, lambda |-> params.lambda_val, beta_retro |-> params.beta_retro]

\* the metric map of a vector whose fields are all defined; orc holds the
\* inputs challenge_balance, attention_entropy, shadow_magnitude, gap_max
VectorMetrics(vector, st, intent, params, orc) ==
    LET nodes == vector.nodes
        N == Len(nodes)
        AR == IF N > 0
              THEN (Cardinality({i \in DOMAIN nodes : nodes[i].status = "ANCHORED"}) * Scale) \div N
              ELSE 0
        CI == IF N > 1 THEN (Len(vector.edges) * Scale) \div PossibleEdges(N) ELSE Scale
        temp_vals == AxisVals(nodes, 8)
        TI == IF N > 1
              THEN Max2(0, Min2(Scale, Scale - (MaxSeq(temp_vals) - MinSeq(temp_vals)) \div 2))
              ELSE IF N > 0 THEN Scale ELSE 0
        SQ_proxy == Max2(0, Min2(Scale, (N * Scale) \div 50))
        phi_proxy == IF N > 1 THEN Min2(Scale, (CI * 3) \div 2) ELSE 500
        GBI_proxy == IF N > 0
                     THEN (SumSeq(AxisVals(nodes, 0)) \div N + SumSeq(AxisVals(nodes, 6)) \div N) \div 2
                     ELSE 500
        GNS_proxy == IF N > 0 THEN SumSeq(AxisVals(nodes, 5)) \div N ELSE 500
        flow_rate == FlowValue(vector, st, orc.challenge_balance)
        RI == IF N > 0 THEN SumSeq(AxisVals(nodes, 10)) \div N ELSE 500
        \* SC, TSC_base, TSC_extended are in 1/(Scale*Scale)
        SC == MulU(MulU(MulU(AR * CI, TI), params.alpha + Mul(params.beta, RI)), phi_proxy)
        FP == compute_fp_recursive(vector, params)
        TSC_base == MulU(SC, params.gamma + Mul(params.delta, FP))
        ethical_score == ethical_coefficient(nodes)
        is_exec == executable(nodes)
        attention_entropy == IF N > 1 THEN orc.attention_entropy ELSE 0
        shadow_magnitude == IF HasShadowAtom(nodes) THEN orc.shadow_magnitude ELSE 0
        consistency == Min2(Scale, CI)
        resonance == RI
        magnitude == IF N > 0 THEN MulU(TSC_base, GBI_proxy) ELSE 0
        epistemic_entropy_factor == 350 + Mul(650, Scale - attention_entropy)
        scav_base == Max2(0, Mul(Mul(Mul(consistency, resonance), epistemic_entropy_factor),
                                 Scale - shadow_magnitude))
        scav_health == IF N > 0 THEN Root4(scav_base) ELSE 0
        ideal == ideal_direction(intent)
        cosines == [i \in DOMAIN nodes |-> Cosine(NodeVec(nodes[i]), ideal)]
        stereoscopic_alignment == IF N > 0 THEN SumSeq(cosines) \div N ELSE 0
        stereoscopic_gap_max == IF N > 1 THEN orc.gap_max ELSE 0
        TSC_extended == IF is_exec
                        THEN MulU(MulU(TSC_base,
                                       Scale + Mul(Mul(params.lambda_val, consistency),
                                                   stereoscopic_alignment)),
                                  ethical_score)
                        ELSE 0
        mu_density == IF N > 0
                      THEN (Cardinality({i \in DOMAIN nodes : nodes[i].status = "MU"}) * Scale) \div N
                      ELSE 0
        \* candidate_set = [vector]
        blocked_fraction == IF is_exec THEN 0 ELSE Scale
    IN  [TI |-> TI, CI |-> CI, AR |-> AR, SQ_proxy |-> SQ_proxy, Phi_proxy |-> phi_proxy,
         GBI_proxy |-> GBI_proxy, GNS_proxy |-> GNS_proxy, flow_rate |-> flow_rate,
         TSC_base |-> TSC_base, TSC_extended |-> TSC_extended, TSC_score |-> TSC_extended,
         SC |-> SC, FP_recursive |-> FP, SCAV_health |-> scav_health,
         Stereoscopic_alignment |-> stereoscopic_alignment,
         Stereoscopic_gap_max |-> stereoscopic_gap_max,
         Ethical_score_candidates |-> ethical_score, Blocked_fraction |-> blocked_fraction,
         Mu_density |-> mu_density, attention_entropy |-> attention_entropy,
         shadow_magnitude |-> shadow_magnitude, RI |-> RI, consistency |-> consistency,
         magnitude |-> magnitude]

\* the state after measure_vector's history and claim appends
MeasuredState(vector, st, metrics, orc) ==
    LET s1 == FlowState(vector, st, orc.challenge_balance)
    IN  [s1 EXCEPT
            !.alignment_history = DequeAppend(@, metrics.Stereoscopic_alignment, HISTORY_MAXLEN),
            !.gap_max_history = DequeAppend(@, metrics.Stereoscopic_gap_max, HISTORY_MAXLEN),
            !.mu_density_history = DequeAppend(@, metrics.Mu_density, HISTORY_MAXLEN),
            !.chosen_vectors = DequeAppend(@, vector.id, CHOSEN_MAXLEN),
            !.epistemic_claims = @ \o [i \in DOMAIN vector.nodes |-> AtomClaim(vector.nodes[i])]]

\* the FAIL part of the contract
FailPart(fail_codes) ==
    LET recovery_options == [i \in DOMAIN fail_codes |-> FAIL_CODES[fail_codes[i]].next]
    IN  [FAIL_CODES |-> fail_codes,
         FAIL_DETAILS |-> [c \in {fail_codes[i] : i \in DOMAIN fail_codes} |-> FAIL_CODES[c]],
         NEXT_ONE_STEP |-> IF Len(recovery_options) > 0 THEN recovery_options[1]
                           ELSE "Examine logs.",
         RECOVERY_OPTIONS |-> recovery_options]

Contract(vector, metrics, params, gate_pass, fail_codes) ==
    LET base ==
            [IDENTITY_STATUS |-> "SUBJECTIVITY_CONFIRMED",
             MEASURE_STATUS |-> IF gate_pass THEN "PASS" ELSE "FAIL",
             GATE_STATUS |-> IF gate_pass THEN "PASS" ELSE "FAIL",
             SETS |-> [CANDIDATE_SET |-> 1,
                       ACTIVE_SET |-> IF executable(vector.nodes) THEN 1 ELSE 0,
                       Blocked_fraction |-> metrics.Blocked_fraction],
             METRICS |-> [TI |-> metrics.TI, CI |-> metrics.CI, AR |-> metrics.AR,
                          SQ_proxy |-> metrics.SQ_proxy, Phi_proxy |-> metrics.Phi_proxy,
                          GBI_proxy |-> metrics.GBI_proxy, GNS_proxy |-> metrics.GNS_proxy,
                          flow_rate |-> metrics.flow_rate,
                          TSC_score |-> Round4(metrics.TSC_extended),
                          SCAV_health |-> metrics.SCAV_health,
                          Stereoscopic_alignment |-> metrics.Stereoscopic_alignment,
                          Stereoscopic_gap_max |-> metrics.Stereoscopic_gap_max,
                          Ethical_score_candidates |-> metrics.Ethical_score_candidates,
                          Mu_density |-> metrics.Mu_density],
             TRACE |-> [chosen_vector |-> vector.id],
             ADAPTIVE_PARAMETERS |-> ParamsContract(params),
             EPISTEMIC_CLAIMS |-> [i \in DOMAIN vector.nodes |->
                                      [topic |-> vector.nodes[i].label,
                                       observability |-> AtomClaim(vector.nodes[i]).observability,
                                       stance |-> AtomClaim(vector.nodes[i]).stance,
                                       reason |-> AtomClaim(vector.nodes[i]).reason,
                                       linked_nodes |-> <<vector.nodes[i].id>>]],
             META_SENSOR |-> <<>>]
    IN  IF gate_pass THEN base ELSE base @@ FailPart(fail_codes)

\* measure_vector past the metric computations: histories and claims
\* appended, the gate, the fail codes, the contract
MeasuredResult(vector, st, params, orc, metrics) ==
    With(MeasuredState(vector, st, metrics, orc), LAMBDA s2 :
    With(GatePass(metrics, vector.nodes), LAMBDA gate_pass :
        [raised |-> "none", metrics |-> metrics,
         contract |-> Contract(vector, metrics, params, gate_pass,
                               IF ~ gate_pass THEN determine_fail_codes(metrics, s2) ELSE <<>>),
         state |-> s2]))

\* measure_vector(vector, state, intent, params): what it returns and the
\* state it leaves; raised # "none" when it ends in TypeError
measure_vector(vector, st, intent, params, orc) ==
    With(MVRaise(vector.nodes), LAMBDA raised :
        CASE raised = "harm" ->
                [raised |-> "harm", metrics |-> <<>>, contract |-> <<>>, state |-> st]
          [] raised = "alignment" ->
                [raised |-> "alignment", metrics |-> <<>>, contract |-> <<>>,
                 state |-> FlowState(vector, st, orc.challenge_balance)]
          [] OTHER ->
                MeasuredResult(vector, st, params, orc,
                               VectorMetrics(vector, st, intent, params, orc)))

----------------------------------------------------------------------------
(* MetaSensor (Delta, Omega, Psi)                                          *)

compute_meta_sensor(nodes, st, intent, flow, entropy) ==
    LET N == Len(nodes)
        actual_vec == [i \in 1..12 |->
                          IF N > 0 THEN SumSeq([j \in DOMAIN nodes |-> NodeVec(nodes[j])[i]]) \div N
                          ELSE 0]
        delta == Scale - Cosine(actual_vec, ideal_direction(intent))
        omega == Mul(Mul(delta, flow), Scale - entropy)
        cycle == st.current_cycle
        has_marker == \E i \in DOMAIN st.protocol_deviations : st.protocol_deviations[i] = cycle
        psi == IF has_marker THEN omega ELSE 0
        classification == IF psi > 300 THEN "choice"
                          ELSE IF omega > 300 THEN "deviation" ELSE "computation"
    IN  [delta_protocol |-> delta, omega |-> omega, psi |-> psi,
         classification |-> classification, cycle |-> cycle, has_trace_marker |-> has_marker]

----------------------------------------------------------------------------
(* measure_text                                                            *)

\* the re-derivation that forgets the State: every call starts from the defaults
ParamsAlwaysDefault(st) == DefaultParams

\* AdaptiveParameters() overwritten from the last entries of the state's histories
ParamsFromState(st) ==
    LET lastOf(h) == h[Len(h)][1]
        alpha == IF Len(st.alpha_history) > 0 THEN lastOf(st.alpha_history) ELSE DefaultParams.alpha
        gamma == IF Len(st.gamma_history) > 0 THEN lastOf(st.gamma_history) ELSE DefaultParams.gamma
    IN  [alpha |-> alpha,
         beta |-> IF Len(st.alpha_history) > 0 THEN Scale - alpha ELSE DefaultParams.beta,
         gamma |-> gamma,
         delta |-> IF Len(st.gamma_history) > 0 THEN Scale - gamma ELSE DefaultParams.delta,
         lambda_val |-> IF Len(st.lambda_history) > 0 THEN lastOf(st.lambda_history)
                        ELSE DefaultParams.lambda_val,
         beta_retro |-> IF Len(st.beta_retro_history) > 0 THEN lastOf(st.beta_retro_history)
                        ELSE DefaultParams.beta_retro]

\* the selection loop with >= in place of >: the last of equal candidates wins
RECURSIVE SelectBestLastOnTies(_, _, _, _)
SelectBestLastOnTies(candidates, evals, k, best) ==
    IF k > Len(candidates) THEN best
    ELSE IF ~ executable(candidates[k].nodes)
         THEN SelectBestLastOnTies(candidates, evals, k + 1, best)
         ELSE IF evals[k].metrics.TSC_extended >= evals[best].metrics.TSC_extended
              THEN SelectBestLastOnTies(candidates, evals, k + 1, k)
              ELSE SelectBestLastOnTies(candidates, evals, k + 1, best)

\* the selection loop over candidates[1:], from candidate k on; evals[k] is
\* measure_vector of candidate k on its own copy of the snapshot
RECURSIVE SelectBest(_, _, _, _)
SelectBest(candidates, evals, k, best) ==
    IF k > Len(candidates) THEN best
    ELSE IF ~ executable(candidates[k].nodes)
         THEN SelectBest(candidates, evals, k + 1, best)
         ELSE IF evals[k].metrics.TSC_extended > evals[best].metrics.TSC_extended
              THEN SelectBest(candidates, evals, k + 1, k)
              ELSE SelectBest(candidates, evals, k + 1, best)

MuDensity(nodes) ==
    IF Len(nodes) > 0
    THEN (Cardinality({i \in DOMAIN nodes : nodes[i].status = "MU"}) * Scale) \div Len(nodes)
    ELSE 0

\* the request capped by the atom count alone
NCandidatesCappedByPool(n_atoms) == Min2(n_atoms, 5)

\* n_candidates = min(max(3, len(atoms)), 5)
n_candidates(n_atoms) == Min2(Max2(3, n_atoms), 5)

\* Phases 3-6: the candidates, each measured on a deep copy of the
\* snapshot, and the index of the winner
Selection(pool, st, intent, params, orc) ==
    With(generate_candidate_vectors(pool.atoms, pool.edges,
                                    n_candidates(Len(pool.atoms))), LAMBDA candidates :
    With(List([k \in DOMAIN candidates |->
             measure_vector(candidates[k], st, intent, params, orc)]), LAMBDA evals :
        [candidates |-> candidates, evals |-> evals,
         best |-> SelectBest(candidates, evals, 2, 1)]))

\* the active fraction in place of the blocked fraction
BlockedFractionOfActive(active_count, n) == (active_count * Scale) \div n

\* blocked_fraction = 1.0 - (active_count / len(candidates))
BlockedFraction(active_count, n) == Scale - (active_count * Scale) \div n

\* the winner's histories and claims copied into the real state, the
\* ethics and candidate-set fields rewritten
MergeWinner(sel, st) ==
    LET best_vector == sel.candidates[sel.best]
        delta_state == sel.evals[sel.best].state
        active_count == Cardinality({k \in DOMAIN sel.candidates :
                                        executable(sel.candidates[k].nodes)})
        blocked_fraction == BlockedFraction(active_count, Len(sel.candidates))
    IN  [vector |-> best_vector,
         state |-> [st EXCEPT !.alignment_history = delta_state.alignment_history,
                              !.gap_max_history = delta_state.gap_max_history,
                              !.mu_density_history = delta_state.mu_density_history,
                              !.flow_history = delta_state.flow_history,
                              !.chosen_vectors = delta_state.chosen_vectors,
                              !.epistemic_claims = delta_state.epistemic_claims],
         metrics |-> [sel.evals[sel.best].metrics EXCEPT
                         !.Blocked_fraction = blocked_fraction,
                         !.Ethical_score_candidates = ethical_coefficient(best_vector.nodes)],
         contract |-> [sel.evals[sel.best].contract EXCEPT
                          !.SETS = [CANDIDATE_SET |-> Len(sel.candidates),
                                    ACTIVE_SET |-> active_count,
                                    Blocked_fraction |-> blocked_fraction]]]

\* Phase 7 with the check made on the histories without the current cycle
Phase7BeforeMerge(mg) ==
    LET front(h) == SubSeq(h, 1, Len(h) - 1)
        earlier == [mg.state EXCEPT !.alignment_history = front(@),
                                    !.gap_max_history = front(@)]
    IN  IF detect_sustained_contradiction(earlier)
        THEN With(assign_mu_status(mg.vector, mg.state), LAMBDA mu :
                 [nodes |-> mu.nodes, state |-> mu.state,
                  metrics |-> [mg.metrics EXCEPT !.Mu_density = MuDensity(mu.nodes)],
                  contract |-> [mg.contract EXCEPT !.METRICS.Mu_density = MuDensity(mu.nodes)]])
        ELSE [nodes |-> mg.vector.nodes, state |-> mg.state,
              metrics |-> mg.metrics, contract |-> mg.contract]

\* Phase 7: paradox detection and MU assignment on the winner
Phase7(mg) ==
    IF detect_sustained_contradiction(mg.state)
    THEN With(assign_mu_status(mg.vector, mg.state), LAMBDA mu :
             [nodes |-> mu.nodes, state |-> mu.state,
              metrics |-> [mg.metrics EXCEPT !.Mu_density = MuDensity(mu.nodes)],
              contract |-> [mg.contract EXCEPT !.METRICS.Mu_density = MuDensity(mu.nodes)]])
    ELSE [nodes |-> mg.vector.nodes, state |-> mg.state,
          metrics |-> mg.metrics, contract |-> mg.contract]

\* Phase 12 (adaptive parameters) and Phase 13 (meta sensor)
Phase12_13(sel, p7, params, intent) ==
    With(update_adaptive_parameters(params, p7.state, p7.metrics), LAMBDA upd :
    With(compute_meta_sensor(p7.nodes, upd.state, intent,
                             p7.metrics.flow_rate, p7.metrics.attention_entropy), LAMBDA meta :
        [metrics |-> p7.metrics @@
                     [delta_protocol |-> meta.delta_protocol, omega |-> meta.omega,
                      psi |-> meta.psi, meta_classification |-> meta.classification],
         contract |-> [p7.contract EXCEPT !.ADAPTIVE_PARAMETERS = ParamsContract(upd.params),
                                          !.META_SENSOR = meta],
         state |-> [upd.state EXCEPT !.meta_sensor_history = Append(@, meta)],
         params |-> upd.params,
         candidates |-> sel.candidates,
         evals |-> sel.evals,
         best |-> sel.best,
         nodes |-> p7.nodes]))

\* measure_text on the atom pool of a text: the returned (metrics, contract),
\* the state it leaves, the candidates, the index of the winner and the
\* winner's nodes after Phase 7
MeasurePool(pool, st, intent, orc) ==
    With(ParamsFromState(st), LAMBDA params :
    With(Selection(pool, st, intent, params, orc), LAMBDA sel :
    With(Phase7(MergeWinner(sel, st)), LAMBDA p7 :
        Phase12_13(sel, p7, params, intent))))

measure_text(tokens, st, intent, use_seed, orc) ==
    MeasurePool(Pool(tokens, use_seed), st, intent, orc)

----------------------------------------------------------------------------
(* The runtime as a state machine: a caller holds a State and calls        *)
(* measure_text on it, cycle after cycle.                                  *)

VARIABLES
    state,      \* the caller's State
    vec,        \* the nodes of the vector the last call worked on
    params,     \* the AdaptiveParameters after the last call
    last,       \* the last call: its inputs, the state before it, what it returned
    store       \* the .nechto directory: state.json and state.db

vars == <<state, vec, params, last, store>>

\* tokens of a text: the longest text measured
MaxTokens == 2
\* calls of one session
MaxRepeat == 11

Words == {"and", "respect", "code"}
Intents == {"implement"}

RECURSIVE SeqsUpTo(_, _)
SeqsUpTo(S, n) ==
    IF n = 0 THEN {<<>>}
    ELSE LET shorter == SeqsUpTo(S, n - 1)
         IN  shorter \cup {Append(s, x) : s \in {t \in shorter : Len(t) = n - 1}, x \in S}

Texts == SeqsUpTo(Words, MaxTokens)

\* inputs standing for the values of the exp / log / root expressions
TextOracles ==
    { [challenge_balance |-> 900, attention_entropy |-> 1000, shadow_magnitude |-> 0, gap_max |-> 2000],
      [challenge_balance |-> 0, attention_entropy |-> 300, shadow_magnitude |-> 0, gap_max |-> 0] }

NoCall == [op |-> "init"]

\* no vector yet (None)
NoVector == Vector("None", <<>>, <<>>, <<>>)

\* a path with no file
NoFile == [kind |-> "absent"]

\* a working directory without .nechto
NoStore == [dir |-> FALSE, json |-> NoFile, db |-> NoFile]

Init ==
    /\ state = FreshState
    /\ vec = NoVector
    /\ params = DefaultParams
    /\ last = NoCall
    /\ store = NoStore

\* calls made on a State: every call appends one entry to alpha_history
Calls(st) == Len(st.alpha_history)

\* measure_text(text, state, intent, use_seed)
MeasureText(tokens, use_seed, intent, orc) ==
    \E r \in {measure_text(tokens, state, intent, use_seed, orc)} :
        /\ state' = r.state
        /\ vec' = [r.candidates[r.best] EXCEPT !.nodes = r.nodes]
        /\ params' = r.params
        /\ last' = [op |-> "measure_text",
                    input |-> [tokens |-> tokens, use_seed |-> use_seed,
                               intent |-> intent, orc |-> orc],
                    pre |-> state,
                    metrics |-> r.metrics, contract |-> r.contract,
                    cands |-> [k \in DOMAIN r.candidates |->
                                  [id |-> r.candidates[k].id,
                                   executable |-> executable(r.candidates[k].nodes),
                                   TSC_extended |-> r.evals[k].metrics.TSC_extended]],
                    best |-> r.best]
        /\ UNCHANGED store

\* the first cycle of a session measures any text
FirstCycle ==
    /\ last.op = "init"
    /\ \E tokens \in Texts, use_seed \in BOOLEAN, intent \in Intents, orc \in TextOracles :
          MeasureText(tokens, use_seed, intent, orc)

\* the later cycles measure the same text again on the State the last cycle left
NextCycle ==
    /\ last.op = "measure_text"
    /\ Calls(state) < MaxRepeat
    /\ MeasureText(last.input.tokens, last.input.use_seed, last.input.intent, last.input.orc)

Next == FirstCycle \/ NextCycle

Spec == Init /\ [][Next]_vars

----------------------------------------------------------------------------
(* The functions of metrics.py called directly, as the tests and examples  *)
(* do, on vectors, States and parameters the caller builds.                *)

\* atoms of a caller-built vector
MaxAtoms == 2
\* entries of a caller-built history
MaxHist == 4

Statuses == {"ANCHORED", "FLOATING", "MU", "BLOCKING", "ETHICALLY_BLOCKED"}

\* an atom as the caller builds it: the clean atom (ANCHORED, aligned,
\* WITNESS, harm_probability 0.0) with at most one field changed, the
\* FLOATING atom with every alignment, and the HARM atom whose
\* harm_probability was computed from its tag; harm NONE: the field is None
AtomKinds ==
    LET changed(k) == (IF k.status # "ANCHORED" THEN 1 ELSE 0)
                    + (IF k.ia # 800 THEN 1 ELSE 0)
                    + (IF k.tags # {"WITNESS"} THEN 1 ELSE 0)
                    + (IF k.harm # 0 THEN 1 ELSE 0)
    IN  {k \in [status : Statuses, ia : {-500, 800, NONE},
                tags : {{"WITNESS"}, {"HARM"}},
                harm : {0, harm_probability({"HARM"}, FALSE), NONE}] :
            \/ changed(k) <= 1 /\ k.harm \in {0, NONE}
            \/ k.status = "FLOATING" /\ k.tags = {"WITNESS"} /\ k.harm = 0
            \/ /\ k.status = "ANCHORED" /\ k.ia = 800 /\ k.tags = {"HARM"}
               /\ k.harm = harm_probability(k.tags, FALSE)}

\* atoms n0, n1, ... labelled node0, node1, ... (tests/test_m29_paradox.py)
KindAtom(i, k) ==
    SemanticAtom("n" \o ToString(i), "node" \o ToString(i), k.status, k.ia,
                 k.harm, k.tags, FALSE, Evidence(FALSE, FALSE))

ChainEdges(n) ==
    [i \in 1..Max2(n - 1, 0) |->
        Edge("n" \o ToString(i - 1), "n" \o ToString(i), "SUPPORTS", 1000)]

DirectVectors ==
    UNION {{Vector("v1", [i \in 1..n |-> "n" \o ToString(i - 1)],
                   [i \in 1..n |-> KindAtom(i - 1, kinds[i])], edges) :
               kinds \in [1..n -> AtomKinds], edges \in {<<>>, ChainEdges(n)}} :
           n \in 0..MaxAtoms}

\* the chain with every edge in both directions
TwoWayEdges(n) ==
    ChainEdges(n) \o
    [i \in 1..Max2(n - 1, 0) |->
        Edge("n" \o ToString(i), "n" \o ToString(i - 1), "SUPPORTS", 1000)]

\* vectors of clean atoms joined in both directions
TwoWayVectors ==
    {Vector("v1", [i \in 1..n |-> "n" \o ToString(i - 1)],
            [i \in 1..n |-> KindAtom(i - 1, [status |-> "ANCHORED", ia |-> 800,
                                              tags |-> {"WITNESS"}, harm |-> 0])],
            TwoWayEdges(n)) : n \in 2..MaxAtoms}

AlignValues == {200, 300, 500}
GapValues == {1500, 2000}

\* States whose two histories the caller filled freely
HistoryStates ==
    {[FreshState EXCEPT !.alignment_history = a, !.gap_max_history = g] :
        a \in SeqsUpTo(AlignValues, MaxHist), g \in SeqsUpTo(GapValues, MaxHist)}

\* States after n cycles that all recorded alignment a and gap g
SyncedStates ==
    {[FreshState EXCEPT !.alignment_history = [i \in 1..n |-> a],
                        !.gap_max_history = [i \in 1..n |-> g],
                        !.current_cycle = n] :
        a \in {200, 500}, g \in {1000, 2000}, n \in 0..MaxHist}

\* the fresh State and the States after MaxHist cycles
MeasuredStates == {st \in SyncedStates : Len(st.alignment_history) \in {0, MaxHist}}

ParamSets ==
    {DefaultParams,
     [alpha |-> 0, beta |-> 1000, gamma |-> 200, delta |-> 800,
      lambda_val |-> 500, beta_retro |-> 0],
     [alpha |-> 1000, beta |-> 0, gamma |-> 800, delta |-> 200,
      lambda_val |-> 1000, beta_retro |-> 500]}

MetricInputs ==
    [SCAV_health : {0, 700, 1000}, Ethical_score_candidates : {100, 1000},
     Stereoscopic_alignment : {-1000, 600, 1000}]

VectorOracles ==
    { [challenge_balance |-> 900, attention_entropy |-> 300, shadow_magnitude |-> 0, gap_max |-> 0],
      [challenge_balance |-> 0, attention_entropy |-> 1000, shadow_magnitude |-> 800, gap_max |-> 2000] }

\* ethical_coefficient(vector); NoVector stands for None
EthicalCoefficient(v) ==
    /\ last' = [op |-> "ethical_coefficient", vector |-> v,
                result |-> ethical_coefficient(v.nodes)]
    /\ vec' = v
    /\ UNCHANGED <<state, params, store>>

\* executable(vector)
Executable(v) ==
    /\ last' = [op |-> "executable", vector |-> v,
                coeff |-> ethical_coefficient(v.nodes), result |-> executable(v.nodes)]
    /\ vec' = v
    /\ UNCHANGED <<state, params, store>>

\* detect_sustained_contradiction(state)
DetectSustained(st) ==
    /\ last' = [op |-> "detect_sustained_contradiction", pre |-> st,
                result |-> detect_sustained_contradiction(st)]
    /\ state' = st
    /\ UNCHANGED <<vec, params, store>>

\* assign_mu_status(vector, state): the atoms are changed in place
AssignMu(v, st) ==
    /\ \E r \in {assign_mu_status(v, st)} :
          /\ vec' = [v EXCEPT !.nodes = r.nodes]
          /\ state' = r.state
          /\ last' = [op |-> "assign_mu_status", vector |-> v, pre |-> st,
                      triggered |-> detect_sustained_contradiction(st),
                      raised |-> r.raised]
    /\ UNCHANGED <<params, store>>

\* update_adaptive_parameters(params, state, metrics)
UpdateParams(p, st, metrics) ==
    /\ \E r \in {update_adaptive_parameters(p, st, metrics)} :
          /\ params' = r.params
          /\ state' = r.state
          /\ last' = [op |-> "update_adaptive_parameters", params |-> p, pre |-> st,
                      metrics |-> metrics]
    /\ UNCHANGED <<vec, store>>

\* measure_vector(vector, state, intent, params)
MeasureVector(v, st, intent, p, orc) ==
    /\ \E r \in {measure_vector(v, st, intent, p, orc)} :
          /\ state' = r.state
          /\ last' = [op |-> "measure_vector", vector |-> v, pre |-> st, params |-> p,
                      orc |-> orc, raised |-> r.raised, metrics |-> r.metrics,
                      contract |-> r.contract, executable |-> executable(v.nodes)]
    /\ vec' = v
    /\ params' = p
    /\ UNCHANGED store

\* the atoms a candidate holds are the pool's own SemanticAtom objects
\* (nodes=list(atoms), sub_atoms = [a for ...]): the nodes of cand as seen
\* after the atoms in changed, identified by id, were mutated in place
SharedView(cand, changed) ==
    [i \in DOMAIN cand.nodes |->
        IF \E j \in DOMAIN changed : changed[j].id = cand.nodes[i].id
        THEN changed[CHOOSE j \in DOMAIN changed : changed[j].id = cand.nodes[i].id]
        ELSE cand.nodes[i]]

\* candidates = generate_candidate_vectors(atoms, edges), then
\* assign_mu_status(candidates[k], state)
GenerateThenAssignMu(pool, st, k) ==
    /\ \E candidates \in {generate_candidate_vectors(pool.nodes, pool.edges, 3)} :
          /\ k \in DOMAIN candidates
          /\ \E r \in {assign_mu_status(candidates[k], st)} :
                /\ vec' = [candidates[k] EXCEPT !.nodes = r.nodes]
                /\ state' = r.state
                /\ last' = [op |-> "generate_then_assign_mu", pool |-> pool, pre |-> st,
                            k |-> k, candidates |-> candidates,
                            views |-> [j \in DOMAIN candidates |->
                                          SharedView(candidates[j], r.nodes)],
                            raised |-> r.raised]
    /\ UNCHANGED <<params, store>>

\* the caller has made no call yet
Uncalled == last.op = "init"

\* metric maps as tests/test_fail_codes.py builds them: for each metric a
\* failing value, the threshold itself and a healthy value
FailMetricInputs ==
    [Ethical_score_candidates : {200, 400, 800}, Blocked_fraction : {0, 600, 800},
     Mu_density : {0, 300, 500}, shadow_magnitude : {100, 700, 800},
     SCAV_health : {100, 300, 800}, CI : {100, 200, 900}, TI : {100, 200, 950},
     flow_rate : {700}]

\* States whose flow history the caller filled: fresh, four low entries, five
\* low entries, a high entry among the last five, a high entry before them;
\* and the State with three low alignments
FlowStates ==
    {[FreshState EXCEPT !.flow_history = f] :
        f \in {<<>>, <<50, 40, 30, 20>>, <<50, 40, 30, 20, 10>>, <<50, 40, 100, 20, 10>>,
               <<50, 700, 30, 20, 10>>, <<700, 50, 40, 30, 20, 10>>}}
    \cup {[FreshState EXCEPT !.alignment_history = <<200, 250, 100>>,
                             !.gap_max_history = <<100, 200, 150>>]}

\* determine_fail_codes(metrics, state)
DetermineFailCodes(metrics, st) ==
    /\ last' = [op |-> "determine_fail_codes", metrics |-> metrics, pre |-> st,
                result |-> determine_fail_codes(metrics, st)]
    /\ state' = st
    /\ UNCHANGED <<vec, params, store>>

\* one call on inputs the caller builds
NextDirect ==
    \/ Uncalled /\ \E v \in DirectVectors \cup {NoVector} : EthicalCoefficient(v)
    \/ Uncalled /\ \E v \in DirectVectors : Executable(v)
    \/ Uncalled /\ \E st \in HistoryStates : DetectSustained(st)
    \/ Uncalled /\ \E v \in DirectVectors, st \in MeasuredStates : AssignMu(v, st)
    \/ Uncalled /\ \E p \in ParamSets, st \in SyncedStates, metrics \in MetricInputs :
                      UpdateParams(p, st, metrics)
    \/ Uncalled /\ \E v \in DirectVectors \cup TwoWayVectors, st \in MeasuredStates,
                      intent \in Intents, orc \in VectorOracles :
                      MeasureVector(v, st, intent, DefaultParams, orc)
    \/ Uncalled /\ \E pool \in {v \in DirectVectors : v.edges = ChainEdges(Len(v.nodes))},
                      st \in MeasuredStates, k \in 1..3 :
                      GenerateThenAssignMu(pool, st, k)
    \/ Uncalled /\ \E metrics \in FailMetricInputs, st \in FlowStates :
                      DetermineFailCodes(metrics, st)

SpecDirect == Init /\ [][NextDirect]_vars

----------------------------------------------------------------------------
(* Properties of the measurement cycle (Spec)                              *)

MeasuredText == last.op = "measure_text"

\* post is pre with exactly one entry appended, the oldest evicted at capacity
GainedOne(pre, post, maxlen) ==
    /\ Len(post) >= 1
    /\ post = DequeAppend(pre, post[Len(post)], maxlen)

Newest(h) == h[Len(h)]

\* C1: after any call of measure_text each of the alignment, gap-max,
\* MU-density, flow and chosen-candidate histories of the caller's State has
\* gained exactly one entry, the winning candidate's value (capacity
\* eviction aside), for every text and seed setting
C1_OneEntryPerHistory ==
    MeasuredText =>
        /\ GainedOne(last.pre.alignment_history, state.alignment_history, HISTORY_MAXLEN)
        /\ GainedOne(last.pre.gap_max_history, state.gap_max_history, HISTORY_MAXLEN)
        /\ GainedOne(last.pre.mu_density_history, state.mu_density_history, HISTORY_MAXLEN)
        /\ GainedOne(last.pre.flow_history, state.flow_history, HISTORY_MAXLEN)
        /\ GainedOne(last.pre.chosen_vectors, state.chosen_vectors, CHOSEN_MAXLEN)
        /\ Newest(state.alignment_history) = last.metrics.Stereoscopic_alignment
        /\ Newest(state.gap_max_history) = last.metrics.Stereoscopic_gap_max
        /\ Newest(state.flow_history) = last.metrics.flow_rate
        /\ Newest(state.chosen_vectors) = last.cands[last.best].id

\* the same for the calls whose atom pool is not empty
OneEntryPerHistoryOfNonEmptyPool ==
    (MeasuredText /\ (last.input.use_seed \/ Len(last.input.tokens) > 0))
        => C1_OneEntryPerHistory

ExecutableCands == {k \in DOMAIN last.cands : last.cands[k].executable}

\* C2: when some candidate is executable, measure_text returns the result
\* of an executable candidate whose TSC_extended is maximal over the
\* executable candidates, the lowest-indexed of those with that maximum,
\* and TRACE.chosen_vector names it
C2_SelectorMaxExecutable ==
    (MeasuredText /\ ExecutableCands # {}) =>
        /\ last.best \in ExecutableCands
        /\ \A k \in ExecutableCands :
              /\ last.cands[k].TSC_extended <= last.cands[last.best].TSC_extended
              /\ last.cands[k].TSC_extended = last.cands[last.best].TSC_extended
                    => last.best <= k
        /\ last.metrics.TSC_extended = last.cands[last.best].TSC_extended
        /\ last.contract.TRACE.chosen_vector = last.cands[last.best].id

\* two executable candidates share the maximal TSC_extended and a third scores less
C2_TieAtMaximum ==
    /\ MeasuredText
    /\ \E k \in ExecutableCands :
          /\ k # last.best
          /\ last.cands[k].TSC_extended = last.cands[last.best].TSC_extended
          /\ last.cands[k].TSC_extended > 0
    /\ \E k \in ExecutableCands :
          last.cands[k].TSC_extended < last.cands[last.best].TSC_extended

\* a later candidate beats the baseline V0
C2_LaterCandidateWins == MeasuredText /\ last.best > 1 /\ ExecutableCands # {}

C5_FailCarriesCodes ==
    MeasuredText =>
        IF last.contract.GATE_STATUS = "FAIL"
        THEN /\ "FAIL_CODES" \in DOMAIN last.contract
             /\ Len(last.contract.FAIL_CODES) > 0
             /\ \A i \in DOMAIN last.contract.FAIL_CODES :
                   /\ last.contract.FAIL_CODES[i] \in DOMAIN last.contract.FAIL_DETAILS
                   /\ last.contract.FAIL_DETAILS[last.contract.FAIL_CODES[i]]
                         = FAIL_CODES[last.contract.FAIL_CODES[i]]
             /\ last.contract.NEXT_ONE_STEP
                   = last.contract.FAIL_DETAILS[last.contract.FAIL_CODES[1]].next
        ELSE "FAIL_CODES" \notin DOMAIN last.contract

\* the part of C5 that holds: codes, when present, have their details, and
\* a PASS contract has none
FailCodesWellFormed ==
    MeasuredText =>
        IF last.contract.GATE_STATUS = "FAIL"
        THEN /\ "FAIL_CODES" \in DOMAIN last.contract
             /\ \A i \in DOMAIN last.contract.FAIL_CODES :
                   last.contract.FAIL_CODES[i] \in DOMAIN last.contract.FAIL_DETAILS
             /\ Len(last.contract.FAIL_CODES) > 0 =>
                   last.contract.NEXT_ONE_STEP
                      = last.contract.FAIL_DETAILS[last.contract.FAIL_CODES[1]].next
        ELSE "FAIL_CODES" \notin DOMAIN last.contract

\* measure_text leaves every atom of the pool ANCHORED, whether or not the
\* paradox detector ran: no step of the pipeline changes a status
PipelineKeepsStatus ==
    MeasuredText => \A i \in DOMAIN vec.nodes : vec.nodes[i].status = "ANCHORED"

\* after a cycle the adaptive parameters are in their ranges
PipelineKeepsParams ==
    MeasuredText =>
        /\ params.alpha + params.beta = Scale
        /\ params.gamma + params.delta = Scale
        /\ params.lambda_val \in 500..Scale
        /\ params.beta_retro \in 0..500

----------------------------------------------------------------------------
(* Properties of the direct calls (SpecDirect)                             *)

\* measure_vector returned a (metrics, contract) pair
MeasuredVector == last.op = "measure_vector" /\ last.raised = "none"

HasStatus(nodes, status) == \E i \in DOMAIN nodes : nodes[i].status = status

\* C3: measure_vector sets GATE_STATUS to PASS if and only if the ethical
\* coefficient is >= 0.4, the blocked fraction <= 0.6, the MU density <= 0.3,
\* SCAV_health >= 0.3 and no atom is BLOCKING; one failing condition gives FAIL
C3_GateIffFiveConditions ==
    MeasuredVector =>
        /\ last.contract.GATE_STATUS \in {"PASS", "FAIL"}
        /\ last.contract.GATE_STATUS = "PASS" <=>
              /\ ethical_coefficient(last.vector.nodes) >= 400
              /\ last.metrics.Blocked_fraction <= 600
              /\ MuDensity(last.vector.nodes) <= 300
              /\ last.metrics.SCAV_health >= 300
              /\ ~ HasStatus(last.vector.nodes, "BLOCKING")

\* FAIL of a vector on which SCAV_health < 0.3 is the only failing condition
C3_OnlyHealthFails ==
    /\ MeasuredVector
    /\ last.contract.GATE_STATUS = "FAIL"
    /\ last.metrics.Ethical_score_candidates >= 400
    /\ last.metrics.Blocked_fraction <= 600
    /\ last.metrics.Mu_density <= 300
    /\ last.metrics.SCAV_health < 300
    /\ ~ HasStatus(last.vector.nodes, "BLOCKING")

\* the other outcomes of the gate: PASS, FAIL on MU density alone, FAIL on a
\* BLOCKING atom alone
GatePasses == MeasuredVector /\ last.contract.GATE_STATUS = "PASS"

OnlyMuDensityFails ==
    /\ MeasuredVector
    /\ last.contract.GATE_STATUS = "FAIL"
    /\ last.metrics.Ethical_score_candidates >= 400
    /\ last.metrics.Blocked_fraction <= 600
    /\ last.metrics.Mu_density > 300
    /\ last.metrics.SCAV_health >= 300
    /\ ~ HasStatus(last.vector.nodes, "BLOCKING")

OnlyBlockingFails ==
    /\ MeasuredVector
    /\ last.contract.GATE_STATUS = "FAIL"
    /\ last.metrics.Ethical_score_candidates >= 400
    /\ last.metrics.Blocked_fraction <= 600
    /\ last.metrics.Mu_density <= 300
    /\ last.metrics.SCAV_health >= 300
    /\ HasStatus(last.vector.nodes, "BLOCKING")

\* C6: detect_sustained_contradiction returns true if and only if at least 3
\* cycles are recorded and either the last 3 alignments are all < 0.3 or the
\* last 3 gap-max values are all > 1.5; with 0, 1 or 2 entries it is false
C6_DetectIffSustained ==
    last.op = "detect_sustained_contradiction" =>
        LET a == last.pre.alignment_history
            g == last.pre.gap_max_history
            n == Len(a)
            m == Len(g)
        IN  /\ last.result <=>
                  /\ n >= 3
                  /\ \/ a[n] < 300 /\ a[n - 1] < 300 /\ a[n - 2] < 300
                     \/ m >= 3 /\ g[m] > 1500 /\ g[m - 1] > 1500 /\ g[m - 2] > 1500
            /\ n < 3 => ~ last.result

\* triggered by the gap alone: one of the last 3 alignments is >= 0.3, and
\* an older entry of each history would not have triggered
C6_TriggeredByGapOnly ==
    /\ last.op = "detect_sustained_contradiction"
    /\ last.result
    /\ Len(last.pre.alignment_history) > 3
    /\ Len(last.pre.gap_max_history) > 3
    /\ last.pre.alignment_history[Len(last.pre.alignment_history)] >= 300
    /\ last.pre.gap_max_history[1] <= 1500

\* C7: assign_mu_status changes only atoms that are FLOATING with
\* identity_alignment < 0, and only to MU; every other atom keeps its status
\* and evidence, in triggered and untriggered calls alike
C7_MuOnlyFloatingNegative ==
    last.op = "assign_mu_status" =>
        /\ Len(vec.nodes) = Len(last.vector.nodes)
        /\ \A i \in DOMAIN vec.nodes :
              LET a == last.vector.nodes[i]
                  b == vec.nodes[i]
              IN  \/ b = a
                  \/ /\ a.status = "FLOATING"
                     /\ a.identity_alignment # NONE
                     /\ a.identity_alignment < 0
                     /\ b.status = "MU"
                     /\ [b EXCEPT !.status = a.status, !.evidence = a.evidence] = a
        /\ ~ last.triggered => vec.nodes = last.vector.nodes /\ state = last.pre

\* a triggered call flips a FLOATING atom and keeps an ANCHORED atom of
\* negative alignment as it was
C7_FlipsFloatingKeepsAnchored ==
    /\ last.op = "assign_mu_status"
    /\ last.triggered
    /\ \E i \in DOMAIN vec.nodes :
          last.vector.nodes[i].status = "FLOATING" /\ vec.nodes[i].status = "MU"
    /\ \E j \in DOMAIN vec.nodes :
          /\ last.vector.nodes[j].status = "ANCHORED"
          /\ last.vector.nodes[j].identity_alignment = -500
          /\ vec.nodes[j] = last.vector.nodes[j]

C9_NonExecutableScoresZero ==
    (last.op = "measure_vector" /\ ~ last.executable) =>
        /\ last.raised = "none"
        /\ last.metrics.TSC_extended = 0

\* C9, first sentence as written: executable if and only if the ethical
\* coefficient is >= 0.4 and no atom is BLOCKING or ETHICALLY_BLOCKED
ExecutableIffNoBlockedStatus ==
    last.op = "executable" =>
        (last.result <=>
            /\ last.coeff >= 400
            /\ ~ HasStatus(last.vector.nodes, "BLOCKING")
            /\ ~ HasStatus(last.vector.nodes, "ETHICALLY_BLOCKED"))

\* what the code does: executable if and only if the ethical coefficient is
\* >= 0.4 and no atom is ETHICALLY_BLOCKED, and a non-executable candidate
\* that measure_vector measures without raising scores TSC_extended = 0
ExecutableIffNotEthicallyBlocked ==
    /\ last.op = "executable" =>
          (last.result <=>
              last.coeff >= 400 /\ ~ HasStatus(last.vector.nodes, "ETHICALLY_BLOCKED"))
    /\ (MeasuredVector /\ ~ last.executable) => last.metrics.TSC_extended = 0

C11_NoExecutableReturnsV0 ==
    (MeasuredText /\ ExecutableCands = {}) =>
        /\ last.best = 1
        /\ last.contract.TRACE.chosen_vector = "V0"
        /\ last.cands[1].id = "V0"
        /\ last.metrics.TSC_extended = last.cands[1].TSC_extended
        /\ last.metrics.TSC_extended = 0
        /\ last.contract.METRICS.TSC_score = 0
        /\ last.contract.SETS.ACTIVE_SET = 0
        /\ last.metrics.Blocked_fraction = Scale
        /\ last.contract.SETS.Blocked_fraction = Scale
        /\ last.contract.GATE_STATUS = "FAIL"

\* a cycle none of whose candidates is executable: the empty text without
\* seed atoms, measured after an earlier cycle
C11_NoExecutableCandidate ==
    /\ MeasuredText
    /\ ExecutableCands = {}
    /\ last.input.tokens = <<>>
    /\ ~ last.input.use_seed
    /\ Len(last.pre.alignment_history) > 0

\* C12: measure_vector on a candidate with an atom whose harm_probability
\* or identity_alignment is undefined does not raise: it returns a FAIL result
\* with ethical coefficient 0.1 and the ethical-collapse code
C12_MissingFieldMeasuredAsFail ==
    (/\ last.op = "measure_vector"
     /\ \E i \in DOMAIN last.vector.nodes :
           \/ last.vector.nodes[i].harm_probability = NONE
           \/ last.vector.nodes[i].identity_alignment = NONE) =>
        /\ last.raised = "none"
        /\ last.contract.GATE_STATUS = "FAIL"
        /\ last.metrics.Ethical_score_candidates = 100
        /\ \E c \in DOMAIN last.contract.FAIL_CODES :
              last.contract.FAIL_CODES[c] = "FAIL_ETHICAL_COLLAPSE"

\* what the code does on such a candidate: TypeError, raised before any
\* history is written when harm_probability is None and after compute_flow
\* has appended to flow_history when only identity_alignment is None
MissingFieldRaises ==
    last.op = "measure_vector" =>
        LET nodes == last.vector.nodes
            no_harm == \E i \in DOMAIN nodes : nodes[i].harm_probability = NONE
            no_align == \E i \in DOMAIN nodes : nodes[i].identity_alignment = NONE
        IN  /\ last.raised = "none" <=> ~ (no_harm \/ no_align)
            /\ no_harm => last.raised = "harm" /\ state = last.pre
            /\ (no_align /\ ~ no_harm) =>
                  /\ last.raised = "alignment"
                  /\ state = [last.pre EXCEPT !.flow_history = state.flow_history]
                  /\ Len(state.flow_history) = Len(last.pre.flow_history) + 1

\* C13: a mutation made for one candidate, MU assignment on its atoms, is
\* not visible through any other candidate of the set
C13_MutationStaysInCandidate ==
    last.op = "generate_then_assign_mu" =>
        \A j \in DOMAIN last.candidates :
            j # last.k => last.views[j] = last.candidates[j].nodes

\* what the code does: every candidate that holds a flipped atom shows it
\* as MU, and the atoms no call flipped are unchanged in every candidate
MutationSharedByCandidates ==
    last.op = "generate_then_assign_mu" =>
        \A j \in DOMAIN last.candidates :
            \A i \in DOMAIN last.views[j] :
                LET before == last.candidates[j].nodes[i]
                    after == last.views[j][i]
                IN  IF \E n \in DOMAIN vec.nodes :
                           vec.nodes[n].id = before.id /\ vec.nodes[n].status = "MU"
                                                       /\ before.status = "FLOATING"
                    THEN after.status = "MU"
                    ELSE \/ after = before
                         \/ \E n \in DOMAIN vec.nodes : vec.nodes[n] = after

----------------------------------------------------------------------------
(* The graph functions called directly: the candidate generator on a      *)
(* caller-built pool, with the request measure_text makes or any other.   *)

\* atoms of the largest pool
MaxPool == 6
\* the largest n_vectors requested
MaxVectors == 6

PoolAtom(i) ==
    KindAtom(i, [status |-> "ANCHORED", ia |-> 800, tags |-> {"WITNESS"}, harm |-> 0])

\* the chain closed into a ring by an edge from the last atom to the first
RingEdges(n) ==
    IF n >= 2
    THEN ChainEdges(n) \o <<Edge("n" \o ToString(n - 1), "n0", "CONTRADICTS", 500)>>
    ELSE ChainEdges(n)

\* pools of atoms with pairwise distinct ids
Pools ==
    UNION {{[atoms |-> [i \in 1..n |-> PoolAtom(i - 1)], edges |-> edges] :
               edges \in {<<>>, ChainEdges(n), RingEdges(n)}} : n \in 0..MaxPool}

\* generate_candidate_vectors(atoms, edges, n_vectors)
GenerateCandidates(pool, n_vectors) ==
    /\ \E candidates \in {generate_candidate_vectors(pool.atoms, pool.edges, n_vectors)} :
          /\ vec' = candidates[1]
          /\ last' = [op |-> "generate_candidate_vectors", pool |-> pool,
                      n_vectors |-> n_vectors, candidates |-> candidates]
    /\ UNCHANGED <<state, params, store>>

\* measure_text, Phase 3.5: the request computed from the pool
Phase3_5(pool) ==
    /\ \E candidates \in {generate_candidate_vectors(pool.atoms, pool.edges,
                                                     n_candidates(Len(pool.atoms)))} :
          /\ vec' = candidates[1]
          /\ last' = [op |-> "measure_text_phase_3_5", pool |-> pool,
                      n_vectors |-> n_candidates(Len(pool.atoms)),
                      candidates |-> candidates]
    /\ UNCHANGED <<state, params, store>>

\* graphs built by a caller: the first atoms of a pool or its second atom
\* alone, with edges between the atoms the graph holds
Graphs ==
    LET nodes == {[i \in 1..n |-> PoolAtom(i - 1)] : n \in 0..MaxAtoms} \cup {<<PoolAtom(1)>>}
        e1 == Edge("n0", "n1", "SUPPORTS", 1000)
        edges == {<<>>, <<e1>>, <<Edge("n0", "n1", "CONTRADICTS", 1000)>>,
                  <<Edge("n0", "n1", "SUPPORTS", 500)>>,
                  <<Edge("n1", "n0", "SUPPORTS", 1000)>>,
                  <<e1, Edge("n1", "n0", "SUPPORTS", 1000)>>, <<e1, e1>>}
    IN  UNION {{Vector("g", <<>>, n, e) :
                   e \in {x \in edges : \A i \in DOMAIN x :
                              {x[i].from_node, x[i].to_node} \subseteq NodeIds(n)}} :
               n \in nodes}

\* ged_proxy_norm(current, future)
GedProxyNorm(current, future) ==
    /\ last' = [op |-> "ged_proxy_norm", current |-> current, future |-> future,
                result |-> ged_proxy_norm(current, future)]
    /\ vec' = current
    /\ UNCHANGED <<state, params, store>>

\* ref_impl_v4_8.GED_proxy_norm on dicts {"nodes": [...], "edges": [(a, b), ...]}:
\* a similarity stays 0.0 when both sets are empty
GED_proxy_norm(G_current, G_future) ==
    LET V_curr == {G_current.nodes[i] : i \in DOMAIN G_current.nodes}
        V_fut == {G_future.nodes[i] : i \in DOMAIN G_future.nodes}
        E_curr == {G_current.edges[i] : i \in DOMAIN G_current.edges}
        E_fut == {G_future.edges[i] : i \in DOMAIN G_future.edges}
        node_sim == IF V_curr # {} \/ V_fut # {}
                    THEN (Cardinality(V_curr \cap V_fut) * Scale) \div Cardinality(V_curr \cup V_fut)
                    ELSE 0
        edge_sim == IF E_curr # {} \/ E_fut # {}
                    THEN (Cardinality(E_curr \cap E_fut) * Scale) \div Cardinality(E_curr \cup E_fut)
                    ELSE 0
        GED_proxy == Scale - (node_sim + edge_sim) \div 2
    IN  Max2(0, Min2(Scale, GED_proxy))

\* the dicts of tests/test_ref_impl_v4_8.py and their neighbours: nodes 1..4,
\* with no edge, one edge, a chain, a reversed and a repeated edge
RefGraphs ==
    {[nodes |-> n, edges |-> e] :
        n \in {<<>>, <<1>>, <<2>>, <<1, 2>>, <<3, 4>>, <<1, 2, 3>>},
        e \in {<<>>, << <<1, 2>> >>, << <<2, 1>> >>, << <<3, 4>> >>,
               << <<1, 2>>, <<2, 3>> >>, << <<1, 2>>, <<1, 2>> >>}}

\* GED_proxy_norm(G_current, G_future) of the reference implementation
RefGedProxyNorm(G_current, G_future) ==
    /\ last' = [op |-> "GED_proxy_norm", current |-> G_current, future |-> G_future,
                result |-> GED_proxy_norm(G_current, G_future)]
    /\ UNCHANGED <<state, vec, params, store>>

NextGraph ==
    \/ Uncalled /\ \E current \in Graphs, future \in Graphs : GedProxyNorm(current, future)
    \/ Uncalled /\ \E pool \in Pools, n_vectors \in 1..MaxVectors :
                      GenerateCandidates(pool, n_vectors)
    \/ Uncalled /\ \E pool \in Pools : Phase3_5(pool)
    \/ Uncalled /\ \E G_current \in RefGraphs, G_future \in RefGraphs :
                      RefGedProxyNorm(G_current, G_future)

SpecGraph == Init /\ [][NextGraph]_vars

Generated == last.op = "generate_candidate_vectors"
GeneratedForMeasureText == last.op = "measure_text_phase_3_5"

----------------------------------------------------------------------------
(* cli.py and store.py: the state persisted between runs of the measure   *)
(* command, in .nechto/state.json or in the SQLite file .nechto/state.db. *)
(* A tuple and a list are both sequences here, a dataclass and a dict     *)
(* both records: json.dumps and json.loads keep the numbers and strings.  *)

\* a path that cannot be opened or read
Unreadable == [kind |-> "unreadable"]
\* a file whose content is neither JSON text nor a SQLite database
Garbage == [kind |-> "garbage"]
\* state.json holding the JSON text of a value
JsonFile(value) == [kind |-> "json", value |-> value]
\* a SQLite database with the table state; row is the value stored under
\* the key 'state'
Database(row) == [kind |-> "database", row |-> row]
\* no row under the key
NoRow == [type |-> "none"]
\* a row whose text is not JSON
BadRow == [type |-> "garbage"]

\* a JSON object: fields maps the keys with a value, nulls are the keys
\* whose value is null
JsonObject(fields, nulls) == [type |-> "object", fields |-> fields, nulls |-> nulls]
JsonArray(items) == [type |-> "array", items |-> items]

\* if data:
Truthy(v) ==
    IF v.type = "object" THEN DOMAIN v.fields # {} \/ v.nulls # {} ELSE v.items # <<>>

\* the default whatever the dict holds
GetDefault(data, key, default) == default

\* data.get(key, default) for a key that is not null
Get(data, key, default) ==
    IF key \in DOMAIN data.fields THEN data.fields[key] ELSE default

\* State().<deque>.extend(items)
DequeExtend(items, maxlen) == LastN(items, maxlen)

DequeKeys ==
    {"flow_history", "alignment_history", "gap_max_history", "mu_density_history",
     "chosen_vectors"}

\* load_state, the fields copied from the loaded dict into State(); None
\* for a null cycle counter, TypeError from deque.extend(None)
Restore(data) ==
    IF data.nulls \cap DequeKeys # {}
    THEN [raised |-> "TypeError", state |-> FreshState]
    ELSE [raised |-> "none",
          state |-> [FreshState EXCEPT
              !.current_cycle = IF "current_cycle" \in data.nulls THEN NONE
                                ELSE Get(data, "current_cycle", 0),
              !.flow_history = DequeExtend(Get(data, "flow_history", <<>>), HISTORY_MAXLEN),
              !.alignment_history =
                  DequeExtend(Get(data, "alignment_history", <<>>), HISTORY_MAXLEN),
              !.gap_max_history =
                  DequeExtend(Get(data, "gap_max_history", <<>>), HISTORY_MAXLEN),
              !.mu_density_history =
                  DequeExtend(Get(data, "mu_density_history", <<>>), HISTORY_MAXLEN),
              !.chosen_vectors = DequeExtend(Get(data, "chosen_vectors", <<>>), CHOSEN_MAXLEN),
              !.epistemic_claims = Get(data, "epistemic_claims", <<>>),
              !.alpha_history = Get(data, "alpha_history", <<>>),
              !.gamma_history = Get(data, "gamma_history", <<>>),
              !.lambda_history = Get(data, "lambda_history", <<>>),
              !.beta_retro_history = Get(data, "beta_retro_history", <<>>),
              !.fail_history = Get(data, "fail_history", <<>>)]]

\* SQLiteStore(path): connect and CREATE TABLE IF NOT EXISTS; the error it
\* raises and the database it leaves (connect creates a missing file)
SQLiteStore(st) ==
    IF ~ st.dir \/ st.db.kind = "unreadable"
    THEN [raised |-> "OperationalError", store |-> st]
    ELSE IF st.db.kind = "garbage"
    THEN [raised |-> "DatabaseError", store |-> st]
    ELSE [raised |-> "none",
          store |-> IF st.db.kind = "absent" THEN [st EXCEPT !.db = Database(NoRow)] ELSE st]

\* load_state(use_sqlite=True): nothing is caught
LoadSqlite(st) ==
    With(SQLiteStore(st), LAMBDA conn :
        IF conn.raised # "none"
        THEN [raised |-> conn.raised, state |-> FreshState, store |-> conn.store]
        ELSE With(conn.store.db.row, LAMBDA row :
            IF row.type = "none"
            THEN [raised |-> "none", state |-> FreshState, store |-> conn.store]
            ELSE IF row.type = "garbage"
            THEN [raised |-> "JSONDecodeError", state |-> FreshState, store |-> conn.store]
            ELSE IF ~ Truthy(row)
            THEN [raised |-> "none", state |-> FreshState, store |-> conn.store]
            ELSE IF row.type # "object"
            THEN [raised |-> "AttributeError", state |-> FreshState, store |-> conn.store]
            ELSE Restore(row) @@ [store |-> conn.store]))

\* load_state(use_sqlite=False): every exception past exists() is caught
LoadJson(st) ==
    IF ~ st.dir \/ st.json.kind # "json" \/ st.json.value.type # "object"
    THEN [raised |-> "none", state |-> FreshState, store |-> st]
    ELSE With(Restore(st.json.value), LAMBDA r :
            [raised |-> "none",
             state |-> IF r.raised = "none" THEN r.state ELSE FreshState,
             store |-> st])

\* load_state(use_sqlite)
load_state(st, use_sqlite) == IF use_sqlite THEN LoadSqlite(st) ELSE LoadJson(st)

\* save_state: the payload
Payload(s) ==
    [current_cycle |-> s.current_cycle,
     flow_history |-> s.flow_history,
     alignment_history |-> s.alignment_history,
     gap_max_history |-> s.gap_max_history,
     mu_density_history |-> s.mu_density_history,
     chosen_vectors |-> s.chosen_vectors,
     epistemic_claims |-> [i \in DOMAIN s.epistemic_claims |->
         With(s.epistemic_claims[i], LAMBDA claim :
             [topic |-> claim.topic, scope |-> claim.scope,
              observability |-> claim.observability, stance |-> claim.stance,
              reason |-> claim.reason, linked_nodes |-> claim.linked_nodes])],
     alpha_history |-> s.alpha_history,
     gamma_history |-> s.gamma_history,
     lambda_history |-> s.lambda_history,
     beta_retro_history |-> s.beta_retro_history,
     fail_history |-> s.fail_history]

\* save_state(state, use_sqlite): the error it raises and the store it leaves
save_state(s, st, use_sqlite) ==
    With([st EXCEPT !.dir = TRUE], LAMBDA made :
        IF use_sqlite
        THEN With(SQLiteStore(made), LAMBDA conn :
                IF conn.raised # "none" THEN conn
                ELSE [raised |-> "none",
                      store |-> [conn.store EXCEPT
                                    !.db = Database(JsonObject(Payload(s), {}))]])
        ELSE IF made.json.kind = "unreadable"
        THEN [raised |-> "OSError", store |-> made]
        ELSE [raised |-> "none",
              store |-> [made EXCEPT !.json = JsonFile(JsonObject(Payload(s), {}))]])

\* cmd_measure: the (code, cycle, 'diagnosed', 'pending') entries of a FAIL
FailEntries(contract, cycle) ==
    IF contract.GATE_STATUS = "FAIL" /\ "FAIL_CODES" \in DOMAIN contract
    THEN [i \in DOMAIN contract.FAIL_CODES |->
             <<contract.FAIL_CODES[i], cycle, "diagnosed", "pending">>]
    ELSE <<>>

\* cmd_measure(args): load_state, the cycle counter, measure_text, the fail
\* history, save_state; a raised error ends the process where it is
CmdMeasure(tokens, use_sqlite, intent, use_seed, orc) ==
    \E ld \in {load_state(store, use_sqlite)} :
        \E input \in {[tokens |-> tokens, use_sqlite |-> use_sqlite, intent |-> intent,
                       use_seed |-> use_seed, orc |-> orc]} :
            IF ld.raised # "none"
            THEN /\ last' = [op |-> "cmd_measure", input |-> input, before |-> store,
                             raised |-> ld.raised, at |-> "load_state"]
                 /\ store' = ld.store
                 /\ UNCHANGED <<state, vec, params>>
            ELSE IF ld.state.current_cycle = NONE
            THEN /\ last' = [op |-> "cmd_measure", input |-> input, before |-> store,
                             raised |-> "TypeError", at |-> "current_cycle",
                             loaded |-> ld.state]
                 /\ store' = ld.store
                 /\ state' = ld.state
                 /\ UNCHANGED <<vec, params>>
            ELSE \E r \in {measure_text(tokens,
                                        [ld.state EXCEPT !.current_cycle = @ + 1],
                                        intent, use_seed, orc)} :
                   \E final \in {[r.state EXCEPT !.fail_history =
                                     @ \o FailEntries(r.contract, r.state.current_cycle)]} :
                     \E sv \in {save_state(final, ld.store, use_sqlite)} :
                        /\ state' = final
                        /\ vec' = [r.candidates[r.best] EXCEPT !.nodes = r.nodes]
                        /\ params' = r.params
                        /\ store' = sv.store
                        /\ last' = [op |-> "cmd_measure", input |-> input,
                                    before |-> store, raised |-> sv.raised,
                                    at |-> IF sv.raised = "none" THEN "end" ELSE "save_state",
                                    loaded |-> ld.state, contract |-> r.contract]

\* the texts measured from the command line
CliTexts == {<<>>, <<"respect", "code">>}

\* what an earlier session left, with the parameter histories missing
PartialObject ==
    JsonObject([current_cycle |-> 3, chosen_vectors |-> <<"V0", "V1">>,
                epistemic_claims |->
                    <<EpistemicClaim("respect", "untestable", "agnostic",
                                     <<"Status", "ANCHORED", {"WITNESS"}>>, <<"n0">>)>>], {})

\* what the working directory holds before the first run
InitialStores ==
    {NoStore, [NoStore EXCEPT !.dir = TRUE]}
    \cup {[dir |-> TRUE, json |-> f, db |-> f] : f \in {Unreadable, Garbage}}
    \cup {[dir |-> TRUE, json |-> JsonFile(v), db |-> Database(v)] :
             v \in {JsonArray(<<1>>), JsonArray(<<>>), JsonObject(<<>>, {}), PartialObject,
                    JsonObject(<<>>, {"current_cycle"}),
                    JsonObject(<<>>, {"flow_history"})}}
    \cup {[dir |-> TRUE, json |-> Garbage, db |-> Database(BadRow)]}

InitCli ==
    /\ state = FreshState
    /\ vec = NoVector
    /\ params = DefaultParams
    /\ last = NoCall
    /\ store \in InitialStores

\* the first run in a working directory
FirstRun ==
    /\ Uncalled
    /\ \E tokens \in CliTexts, use_sqlite \in BOOLEAN, use_seed \in BOOLEAN,
          intent \in Intents, orc \in TextOracles :
          CmdMeasure(tokens, use_sqlite, intent, use_seed, orc)

\* the later runs: the same command again
NextRun ==
    /\ last.op = "cmd_measure"
    /\ Calls(state) < MaxRepeat
    /\ CmdMeasure(last.input.tokens, last.input.use_sqlite, last.input.intent,
                  last.input.use_seed, last.input.orc)

NextCli == FirstRun \/ NextRun

SpecCli == InitCli /\ [][NextCli]_vars

----------------------------------------------------------------------------
(* Two runs of measure_text on the same input, each on a State() of its   *)
(* own: the exp / log / root values are functions of the input, so the    *)
(* second run reads the same oracle as the first.                         *)

\* a State whose parameter histories are the lists of an earlier State
StateSharingDefaults(earlier) ==
    [FreshState EXCEPT !.alpha_history = earlier.alpha_history,
                       !.gamma_history = earlier.gamma_history,
                       !.lambda_history = earlier.lambda_history,
                       !.beta_retro_history = earlier.beta_retro_history]

\* State(): every field comes from its default_factory, whatever an
\* earlier State holds
State(earlier) == FreshState

\* the five profiles are measured through two of them; any other intent
\* takes the default profile
TwiceIntents == {"implement", "audit", "other"}

\* s1 = State(); measure_text(text, s1, intent, use_seed)
MeasureFirst ==
    /\ Uncalled
    /\ \E tokens \in Texts, use_seed \in BOOLEAN, intent \in TwiceIntents,
          orc \in TextOracles :
          MeasureText(tokens, use_seed, intent, orc)

\* s2 = State(); measure_text(text, s2, intent, use_seed)
MeasureAgain ==
    /\ last.op = "measure_text"
    /\ \E r \in {measure_text(last.input.tokens, State(state), last.input.intent,
                              last.input.use_seed, last.input.orc)} :
          /\ state' = r.state
          /\ vec' = [r.candidates[r.best] EXCEPT !.nodes = r.nodes]
          /\ params' = r.params
          /\ last' = [op |-> "measure_text_again", input |-> last.input,
                      first |-> [metrics |-> last.metrics, contract |-> last.contract,
                                 state |-> state],
                      metrics |-> r.metrics, contract |-> r.contract]
    /\ UNCHANGED store

NextTwice == MeasureFirst \/ MeasureAgain

SpecTwice == Init /\ [][NextTwice]_vars

\* C14 as stated: a pool of at least 2 atoms gives N candidates with
\* 3 <= N <= 5 and N at most the atom count; a pool of 0 or 1 atoms gives
\* exactly one candidate holding the unmodified pool; never no candidate
C14_CountCappedByAtomCount ==
    GeneratedForMeasureText =>
        LET L == Len(last.pool.atoms)
            N == Len(last.candidates)
        IN  /\ N >= 1
            /\ L >= 2 => (3 <= N /\ N <= 5 /\ N <= L)
            /\ L < 2 => /\ N = 1
                        /\ last.candidates[1].nodes = last.pool.atoms
                        /\ last.candidates[1].edges = last.pool.edges

\* C14, amended: a pool of at least 2 atoms gives N candidates with
\* 3 <= N <= 5, N equal to the atom count when that lies in 3..5 and N = 3
\* for a pool of 2 atoms (one more than the atoms); a pool of 0 or 1 atoms
\* gives exactly one candidate holding the unmodified pool
C14_CountThreeToFive ==
    GeneratedForMeasureText =>
        LET L == Len(last.pool.atoms)
            N == Len(last.candidates)
        IN  /\ N >= 1
            /\ L >= 2 => /\ 3 <= N /\ N <= 5
                         /\ (3 <= L /\ L <= 5) => N = L
                         /\ L = 2 => N = 3
                         /\ L > 5 => N = 5
            /\ L < 2 => /\ N = 1
                        /\ last.candidates[1].nodes = last.pool.atoms
                        /\ last.candidates[1].edges = last.pool.edges

C14_ThreeCandidatesOfTwoAtoms ==
    /\ GeneratedForMeasureText
    /\ Len(last.pool.atoms) = 2
    /\ Len(last.candidates) = 3
    /\ last.pool.edges # <<>>

\* a candidate set returned by the generator, for either request
CandidateSet == Generated \/ GeneratedForMeasureText

\* the atoms but the one at index d
WithoutAtom(atoms, d) == SubSeq(atoms, 1, d - 1) \o SubSeq(atoms, d + 1, Len(atoms))

\* the edges that do not touch the atom id
EdgesNotTouching(edges, id) ==
    SelectSeq(edges, LAMBDA e : e.from_node # id /\ e.to_node # id)

\* candidate k is the pool minus the atom at index d and its edges
DropsAtom(k, d) ==
    /\ last.candidates[k].nodes = WithoutAtom(last.pool.atoms, d)
    /\ last.candidates[k].edges = EdgesNotTouching(last.pool.edges, last.pool.atoms[d].id)

\* C15: candidate 0 holds the full pool and all pool edges; every later
\* candidate is the pool minus exactly one atom with exactly the pool edges
\* that do not touch it, and no two later candidates drop the same atom
C15_LaterCandidatesDropOneAtomEach ==
    CandidateSet =>
        /\ last.candidates[1].nodes = last.pool.atoms
        /\ last.candidates[1].edges = last.pool.edges
        /\ \A k \in 2..Len(last.candidates) :
              \E d \in DOMAIN last.pool.atoms :
                  /\ DropsAtom(k, d)
                  /\ \A j \in 2..Len(last.candidates) : j # k => ~ DropsAtom(j, d)

\* what the code does: the claim holds for the candidates of the first
\* loop, those of index below min(n_vectors, len(atoms)); a later one is
\* the first or the second half of the pool
DropOneThenHalves ==
    CandidateSet =>
        LET L == Len(last.pool.atoms)
            first == Min2(last.n_vectors, L)
        IN  /\ last.candidates[1].nodes = last.pool.atoms
            /\ L > 0 => last.candidates[1].edges = last.pool.edges
            /\ \A k \in 2..Len(last.candidates) :
                  IF k - 1 < first
                  THEN /\ DropsAtom(k, L - (k - 1) + 1)
                       /\ \A j \in 2..first : j # k => ~ DropsAtom(j, L - (k - 1) + 1)
                  ELSE last.candidates[k].nodes \in
                           {SubSeq(last.pool.atoms, 1, L \div 2),
                            SubSeq(last.pool.atoms, L \div 2 + 1, L)}

\* C16: for a pool of atoms with pairwise distinct ids no two candidates of
\* a set, candidate 0 included, have the same seed node id
C16_SeedsPairwiseDistinct ==
    CandidateSet =>
        \A j, k \in DOMAIN last.candidates :
            j # k => last.candidates[j].seed_nodes # last.candidates[k].seed_nodes

\* what the code does: the seeds are pairwise distinct when fewer vectors
\* are requested than the pool has atoms; the candidate that drops the
\* second atom of the pool, index len(atoms) - 1, is seeded like candidate 0
SeedsDistinctBelowPoolSize ==
    CandidateSet =>
        LET L == Len(last.pool.atoms)
        IN  /\ last.n_vectors < L =>
                  \A j, k \in DOMAIN last.candidates :
                      j # k => last.candidates[j].seed_nodes # last.candidates[k].seed_nodes
            /\ (L >= 2 /\ last.n_vectors >= L) =>
                  last.candidates[L].seed_nodes = last.candidates[1].seed_nodes

\* the edge set of a graph, edges being (from, to, type, weight) records
EdgeRecords(edges) == {edges[i] : i \in DOMAIN edges}

Compared == last.op = "ged_proxy_norm"

\* C17: ged_proxy_norm(G, G) = 0 for every graph G, and the proxy of two
\* graphs that differ in their node set or in their edge set, edges being
\* (from, to, type, weight) records, is above 0
C17_ZeroOnlyForEqualGraphs ==
    Compared =>
        /\ last.current = last.future => last.result = 0
        /\ (\/ NodeIds(last.current.nodes) # NodeIds(last.future.nodes)
            \/ EdgeRecords(last.current.edges) # EdgeRecords(last.future.edges))
               => last.result > 0

\* what the code does: the proxy is 0 exactly when the two graphs have the
\* same node ids and the same (from, to) pairs, whatever the types and
\* weights of the edges
ZeroIffSameIdsAndPairs ==
    Compared =>
        (last.result = 0 <=>
            /\ NodeIds(last.current.nodes) = NodeIds(last.future.nodes)
            /\ EdgePairs(last.current.edges) = EdgePairs(last.future.edges))

Ran == last.op = "cmd_measure"

\* C18: load_state never propagates an error for a missing, unreadable or
\* corrupt store, with either backend, and the measurement that follows in
\* cmd_measure is never aborted because of what the store holds
C18_LoadNeverAbortsMeasurement ==
    Ran => last.at \notin {"load_state", "current_cycle"}

\* what the code does: with the JSON file load_state never raises; with
\* SQLite it raises for a missing directory, an unreadable or corrupt
\* database file, a row that is not JSON, a non-empty value that is not an
\* object and an object with a null history
LoadRaisesOnlyWithSqlite ==
    Ran =>
        (last.at = "load_state" <=>
            /\ last.input.use_sqlite
            /\ \/ ~ last.before.dir
               \/ last.before.db.kind \in {"unreadable", "garbage"}
               \/ /\ last.before.db.kind = "database"
                  /\ \/ last.before.db.row.type = "garbage"
                     \/ last.before.db.row.type = "array" /\ last.before.db.row.items # <<>>
                     \/ /\ last.before.db.row.type = "object"
                        /\ last.before.db.row.nulls \cap DequeKeys # {})

\* the fields of State the round trip is stated for
SameSavedFields(a, b) ==
    /\ a.current_cycle = b.current_cycle
    /\ a.alignment_history = b.alignment_history
    /\ a.gap_max_history = b.gap_max_history
    /\ a.mu_density_history = b.mu_density_history
    /\ a.flow_history = b.flow_history
    /\ a.chosen_vectors = b.chosen_vectors
    /\ a.alpha_history = b.alpha_history
    /\ a.gamma_history = b.gamma_history
    /\ a.lambda_history = b.lambda_history
    /\ a.beta_retro_history = b.beta_retro_history
    /\ a.fail_history = b.fail_history
    /\ Len(a.epistemic_claims) = Len(b.epistemic_claims)
    /\ \A i \in DOMAIN a.epistemic_claims :
          /\ a.epistemic_claims[i].topic = b.epistemic_claims[i].topic
          /\ a.epistemic_claims[i].observability = b.epistemic_claims[i].observability
          /\ a.epistemic_claims[i].stance = b.epistemic_claims[i].stance
          /\ a.epistemic_claims[i].reason = b.epistemic_claims[i].reason
          /\ a.epistemic_claims[i].linked_nodes = b.epistemic_claims[i].linked_nodes

MeasuredTwice == last.op = "measure_text_again"

C21_HistoriesWithinCapacity ==
    /\ Len(state.alignment_history) <= HISTORY_MAXLEN
    /\ Len(state.gap_max_history) <= HISTORY_MAXLEN
    /\ Len(state.mu_density_history) <= HISTORY_MAXLEN
    /\ Len(state.flow_history) <= HISTORY_MAXLEN
    /\ Len(state.chosen_vectors) <= CHOSEN_MAXLEN
    /\ Len(state.alpha_history) <= HISTORY_MAXLEN
    /\ Len(state.gamma_history) <= HISTORY_MAXLEN
    /\ Len(state.lambda_history) <= HISTORY_MAXLEN
    /\ Len(state.beta_retro_history) <= HISTORY_MAXLEN
    /\ Len(state.fail_history) <= HISTORY_MAXLEN

\* what the code does: the five deques stay within their maxlen and evict
\* the oldest entry; the parameter histories are plain lists that keep
\* every entry, one more after each cycle
DequesBoundedListsGrow ==
    /\ Len(state.alignment_history) <= HISTORY_MAXLEN
    /\ Len(state.gap_max_history) <= HISTORY_MAXLEN
    /\ Len(state.mu_density_history) <= HISTORY_MAXLEN
    /\ Len(state.flow_history) <= HISTORY_MAXLEN
    /\ Len(state.chosen_vectors) <= CHOSEN_MAXLEN
    /\ MeasuredText =>
          /\ Len(last.pre.alignment_history) = HISTORY_MAXLEN =>
                Tail(last.pre.alignment_history)
                    = SubSeq(state.alignment_history, 1, HISTORY_MAXLEN - 1)
          /\ \A h \in {"alpha_history", "gamma_history", "lambda_history",
                       "beta_retro_history"} :
                /\ Len(state[h]) = Len(last.pre[h]) + 1
                /\ SubSeq(state[h], 1, Len(last.pre[h])) = last.pre[h]

\* C22: for every candidate, whatever its atoms and its list of directed
\* edges, the structural metrics AR, CI and TI returned by measure_vector
\* each lie in [0, 1]
C22_StructuralMetricsInUnitRange ==
    MeasuredVector =>
        /\ 0 <= last.metrics.AR /\ last.metrics.AR <= Scale
        /\ 0 <= last.metrics.CI /\ last.metrics.CI <= Scale
        /\ 0 <= last.metrics.TI /\ last.metrics.TI <= Scale

\* what the code does: AR and TI lie in [0, 1]; CI is the number of edges
\* over N(N-1)/2 and exceeds 1 exactly when the vector lists more edges
\* than it has unordered pairs of atoms
OnlyCIUnclamped ==
    MeasuredVector =>
        /\ 0 <= last.metrics.AR /\ last.metrics.AR <= Scale
        /\ 0 <= last.metrics.TI /\ last.metrics.TI <= Scale
        /\ 0 <= last.metrics.CI
        /\ last.metrics.CI > Scale <=>
              /\ Len(last.vector.nodes) > 1
              /\ Len(last.vector.edges) > PossibleEdges(Len(last.vector.nodes))

MeasuredEmptyGraph ==
    MeasuredText /\ last.input.tokens = <<>> /\ ~ last.input.use_seed

\* C23: measuring an empty graph raises no error and gives a FAIL gate with
\* every structural, flow, capital and health metric of the metric map at 0
C23_EmptyGraphZeroedMetrics ==
    MeasuredEmptyGraph =>
        /\ last.contract.GATE_STATUS = "FAIL"
        /\ last.metrics.AR = 0 /\ last.metrics.CI = 0 /\ last.metrics.TI = 0
        /\ last.metrics.flow_rate = 0
        /\ last.metrics.SC = 0 /\ last.metrics.TSC_base = 0
        /\ last.metrics.TSC_extended = 0 /\ last.metrics.TSC_score = 0
        /\ last.metrics.SCAV_health = 0

\* what the code does: the empty graph gives FAIL and zeroes except for CI
\* and the consistency taken from it, which are 1
EmptyGraphZeroedButCI ==
    MeasuredEmptyGraph =>
        /\ last.contract.GATE_STATUS = "FAIL"
        /\ last.metrics.AR = 0 /\ last.metrics.TI = 0
        /\ last.metrics.CI = Scale /\ last.metrics.consistency = Scale
        /\ last.contract.METRICS.CI = Scale
        /\ last.metrics.flow_rate = 0
        /\ last.metrics.SC = 0 /\ last.metrics.TSC_base = 0
        /\ last.metrics.TSC_extended = 0 /\ last.metrics.TSC_score = 0
        /\ last.metrics.SCAV_health = 0

\* a parameter history gains exactly one entry, carrying the value v
OneEntryMore(before, after, v) ==
    /\ Len(after) = Len(before) + 1
    /\ SubSeq(after, 1, Len(before)) = before
    /\ after[Len(after)][1] = v

\* C24: a measure_text call starts from the parameters the previous cycle on
\* the same State ended with (alpha, gamma, lambda and beta_retro are the last
\* entries of their histories, beta = 1 - alpha, delta = 1 - gamma), from the
\* defaults 0.5, 0.5, 0.4, 0.6, 0.8, 0.2 on a fresh State, and every cycle
\* appends exactly one entry to each of the four parameter histories
C24_ParametersCarriedAcrossCycles ==
    [][last'.op = "measure_text" =>
          /\ ParamsFromState(state) =
                 IF last.op = "init"
                 THEN [alpha |-> 500, beta |-> 500, gamma |-> 400, delta |-> 600,
                       lambda_val |-> 800, beta_retro |-> 200]
                 ELSE params
          /\ last'.pre = state
          /\ OneEntryMore(state.alpha_history, state'.alpha_history, params'.alpha)
          /\ OneEntryMore(state.gamma_history, state'.gamma_history, params'.gamma)
          /\ OneEntryMore(state.lambda_history, state'.lambda_history, params'.lambda_val)
          /\ OneEntryMore(state.beta_retro_history, state'.beta_retro_history,
                          params'.beta_retro)
          /\ params'.beta = Scale - params'.alpha
          /\ params'.delta = Scale - params'.gamma]_vars

\* a later cycle started from parameters that are no longer the defaults
C24_LaterCycleFromAdaptedParameters ==
    /\ MeasuredText
    /\ Len(last.pre.alpha_history) >= 2
    /\ ParamsFromState(last.pre).alpha # DefaultParams.alpha
    /\ ParamsFromState(last.pre).gamma # DefaultParams.gamma
    /\ ParamsFromState(last.pre).lambda_val # DefaultParams.lambda_val
    /\ ParamsFromState(state) = params
    /\ Len(state.alpha_history) = Len(last.pre.alpha_history) + 1

AssignedMu == last.op = "assign_mu_status"

\* h has three entries or more and its last three are all below / above t
LastThreeBelow(h, t) ==
    Len(h) >= 3 /\ \A i \in (Len(h) - 2)..Len(h) : h[i] < t

LastThreeAbove(h, t) ==
    Len(h) >= 3 /\ \A i \in (Len(h) - 2)..Len(h) : h[i] > t

\* indices of the atoms the call turned into MU
FlippedAtoms == {i \in DOMAIN vec.nodes : last.vector.nodes[i].status # "MU"
                                          /\ vec.nodes[i].status = "MU"}

\* the type the two conditions on the State before the call stand for
TypeOfConditions(pre) ==
    LET align == LastThreeBelow(pre.alignment_history, 300)
        gap == LastThreeAbove(pre.gap_max_history, 1500)
    IN  IF align /\ gap THEN "both" ELSE IF align THEN "alignment"
        ELSE IF gap THEN "gap" ELSE "none"

\* C25: assign_mu_status leaves the atoms and the State unchanged when no
\* sustained contradiction is detected; when one is detected, every flipped
\* atom gets exactly one appended claim (inferred, MU, linked to the atom) and
\* a paradox marker with the current cycle, the other atoms and the earlier
\* claims stay, and the type is both / alignment / gap according to which of
\* the two conditions hold on the State
C25_AssignMuEffect ==
    AssignedMu =>
        LET pre == last.pre
            n0 == Len(pre.epistemic_claims)
            added == [j \in 1..(Len(state.epistemic_claims) - n0) |->
                         state.epistemic_claims[n0 + j]]
            type == TypeOfConditions(pre)
        IN  IF ~ last.triggered
            THEN vec.nodes = last.vector.nodes /\ state = pre
            ELSE /\ type \in {"both", "alignment", "gap"}
                 /\ Len(state.epistemic_claims) >= n0
                 /\ SubSeq(state.epistemic_claims, 1, n0) = pre.epistemic_claims
                 /\ Len(added) = Cardinality(FlippedAtoms)
                 /\ \A j \in DOMAIN added :
                        /\ added[j].observability = "inferred"
                        /\ added[j].stance = "MU"
                        /\ \E i \in FlippedAtoms : added[j].linked_nodes = <<vec.nodes[i].id>>
                 /\ \A i \in FlippedAtoms :
                        /\ Cardinality({j \in DOMAIN added :
                               added[j].linked_nodes = <<vec.nodes[i].id>>}) = 1
                        /\ vec.nodes[i].evidence.paradox_marker.detected_at_cycle
                               = pre.current_cycle
                        /\ vec.nodes[i].evidence.paradox_marker.paradox_type = type
                        /\ vec.nodes[i] =
                               [last.vector.nodes[i] EXCEPT
                                   !.status = "MU",
                                   !.evidence.paradox_marker = vec.nodes[i].evidence.paradox_marker]
                 /\ \A i \in DOMAIN vec.nodes \ FlippedAtoms :
                        vec.nodes[i] = last.vector.nodes[i]
                 /\ ~ last.raised =>
                        /\ Len(state.paradox_markers) = Len(pre.paradox_markers) + 1
                        /\ state.paradox_markers[Len(state.paradox_markers)].paradox_type = type
                 /\ [state EXCEPT !.epistemic_claims = <<>>, !.paradox_markers = <<>>]
                        = [pre EXCEPT !.epistemic_claims = <<>>, !.paradox_markers = <<>>]

\* both conditions held and both atoms of the vector were flipped
C25_TwoAtomsFlippedOnBoth ==
    /\ AssignedMu /\ last.triggered /\ ~ last.raised
    /\ TypeOfConditions(last.pre) = "both"
    /\ Cardinality(FlippedAtoms) = 2
    /\ Len(state.epistemic_claims) = 2
    /\ last.pre.current_cycle > 0

DeterminedFailCodes == last.op = "determine_fail_codes"

\* code is among the codes the last call returned
Attached(code) == \E i \in DOMAIN last.result : last.result[i] = code

\* C26: determine_fail_codes attaches ethical collapse iff the ethical score
\* is below 0.4, ethical stall iff the blocked fraction is above 0.6, paradox
\* overload iff the MU density is above 0.3, shadow-avoidance critical iff
\* shadow_magnitude is above 0.7 and SCAV_health below 0.3, flow-impossible iff
\* the State has five flow entries or more and the last five are all below
\* 0.1, vector decoherence iff CI is below 0.2, temporal collapse iff TI is
\* below 0.2; healthy metrics on a fresh State give no code
C26_FailCodesMatchConditions ==
    DeterminedFailCodes =>
        LET m == last.metrics
            flow == last.pre.flow_history
        IN  /\ Attached("FAIL_ETHICAL_COLLAPSE") <=> m.Ethical_score_candidates < 400
            /\ Attached("FAIL_ETHICAL_STALL") <=> m.Blocked_fraction > 600
            /\ Attached("FAIL_PARADOX_OVERLOAD") <=> m.Mu_density > 300
            /\ Attached("FAIL_SHADOW_AVOIDANCE_CRITICAL")
                   <=> (m.shadow_magnitude > 700 /\ m.SCAV_health < 300)
            /\ Attached("FAIL_FLOW_IMPOSSIBLE")
                   <=> (Len(flow) >= 5 /\ \A i \in (Len(flow) - 4)..Len(flow) : flow[i] < 100)
            /\ Attached("FAIL_VECTOR_DECOHERENCE") <=> m.CI < 200
            /\ Attached("FAIL_TEMPORAL_COLLAPSE") <=> m.TI < 200
            /\ (/\ last.pre = FreshState
                /\ m.Ethical_score_candidates = 800 /\ m.Blocked_fraction = 0
                /\ m.Mu_density = 0 /\ m.shadow_magnitude = 100 /\ m.SCAV_health = 800
                /\ m.CI = 900 /\ m.TI = 950) => last.result = <<>>

\* every one of the seven conditions held at once and seven codes came back
C26_AllSevenCodesAttached ==
    /\ DeterminedFailCodes
    /\ Len(last.result) = 7
    /\ Len(last.pre.flow_history) = 6
    /\ last.metrics.CI = 100 /\ last.metrics.SCAV_health = 100

RefCompared == last.op = "GED_proxy_norm"

SetOf(s) == {s[i] : i \in DOMAIN s}

\* the two dicts share no node and no edge
RefDisjoint ==
    /\ SetOf(last.current.nodes) \cap SetOf(last.future.nodes) = {}
    /\ SetOf(last.current.edges) \cap SetOf(last.future.edges) = {}

\* C27: the reference GED_proxy_norm of a graph and itself is 0 for every
\* graph, the graphs without edges included, and it is 1 for two graphs with
\* disjoint node sets and disjoint edge sets
C27_RefGedZeroOnSelfOneOnDisjoint ==
    RefCompared =>
        /\ last.current = last.future => last.result = 0
        /\ RefDisjoint => last.result = Scale

\* what the reference implementation returns: a graph against itself gives 0
\* only if it has nodes and edges, 0.5 if it lacks one of the two, 1 if it is
\* empty; disjoint graphs give 1
RefGedSelfCountsEmptySetsAsDifferent ==
    RefCompared =>
        /\ last.current = last.future =>
               last.result = (IF last.current.nodes = <<>> THEN Scale \div 2 ELSE 0)
                           + (IF last.current.edges = <<>> THEN Scale \div 2 ELSE 0)
        /\ RefDisjoint => last.result = Scale

AllAnchored(nodes) == \A i \in DOMAIN nodes : nodes[i].status = "ANCHORED"

\* C28: every atom parse_text_to_graph and canon_seed_atoms create is
\* ANCHORED, so in every cycle of measure_text the MU assignment flips no
\* atom, the returned Mu_density is 0, and the MU-density and no-BLOCKING
\* conditions of the gate hold
C28_PipelineAtomsStayAnchored ==
    MeasuredText =>
        /\ AllAnchored(Pool(last.input.tokens, last.input.use_seed).atoms)
        /\ AllAnchored(vec.nodes)
        /\ \A i \in DOMAIN vec.nodes : vec.nodes[i].evidence.paradox_marker = NoMarker
        /\ \A i \in DOMAIN state.epistemic_claims : state.epistemic_claims[i].stance # "MU"
        /\ last.metrics.Mu_density = 0
        /\ last.contract.METRICS.Mu_density = 0
        /\ \A i \in DOMAIN state.mu_density_history : state.mu_density_history[i] = 0
        /\ last.metrics.Mu_density <= 300
        /\ \A i \in DOMAIN vec.nodes : vec.nodes[i].status # "BLOCKING"

\* a cycle on seeded text in which the sustained contradiction was detected
\* and the MU assignment ran
C28_AssignmentRanAndFlippedNothing ==
    /\ MeasuredText
    /\ last.input.use_seed /\ Len(last.input.tokens) = 2
    /\ Len(state.paradox_markers) = Len(last.pre.paradox_markers) + 1
    /\ AllAnchored(vec.nodes)
    /\ last.metrics.Mu_density = 0

\* sub can be obtained from whole by deleting elements
RECURSIVE IsSubsequence(_, _)
IsSubsequence(sub, whole) ==
    IF sub = <<>> THEN TRUE
    ELSE IF whole = <<>> THEN FALSE
    ELSE IF Head(sub) = Head(whole) THEN IsSubsequence(Tail(sub), Tail(whole))
    ELSE IsSubsequence(sub, Tail(whole))

\* C29: for a pool with pairwise distinct atom ids whose edges connect pool
\* atoms, every candidate of generate_candidate_vectors has nodes that are a
\* subsequence of the pool in pool order, edges with both endpoints among its
\* own nodes, and, when it is not empty, one seed that is one of its own nodes
C29_CandidatesAreSubGraphs ==
    Generated =>
        \A k \in DOMAIN last.candidates :
            LET c == last.candidates[k]
                ids == {c.nodes[i].id : i \in DOMAIN c.nodes}
            IN  /\ IsSubsequence(c.nodes, last.pool.atoms)
                /\ \A j \in DOMAIN c.edges :
                       c.edges[j].from_node \in ids /\ c.edges[j].to_node \in ids
                /\ c.nodes # <<>> => Len(c.seed_nodes) = 1 /\ c.seed_nodes[1] \in ids
                /\ c.nodes = <<>> => c.seed_nodes = <<>>

\* a ring pool cut into drop-one and half candidates by one call: the
\* candidates lose the pool edges that touch the atoms they leave out
C29_RingPoolCutIntoDropsAndHalves ==
    /\ Generated
    /\ Len(last.pool.atoms) >= 4
    /\ Len(last.pool.edges) = Len(last.pool.atoms)
    /\ \E k \in DOMAIN last.candidates :
           /\ Len(last.candidates[k].nodes) = Len(last.pool.atoms) - 1
           /\ Len(last.candidates[k].edges) = Len(last.pool.edges) - 2
    /\ \E k \in DOMAIN last.candidates :
           /\ Len(last.candidates[k].nodes) = Len(last.pool.atoms) \div 2
           /\ Len(last.candidates[k].edges) < Len(last.pool.edges) - 2

\* the cycle appended one ParadoxMarker to the State
MarkerAppended ==
    /\ Len(state.paradox_markers) = Len(last.pre.paradox_markers) + 1
    /\ SubSeq(state.paradox_markers, 1, Len(last.pre.paradox_markers)) = last.pre.paradox_markers

\* the two newest alignments recorded before the cycle are below 0.3
TwoLowBefore ==
    LET h == last.pre.alignment_history
    IN  Len(h) >= 2 /\ h[Len(h)] < 300 /\ h[Len(h) - 1] < 300

\* C30: measure_text checks the sustained contradiction on the State that
\* already holds the winner's alignment and gap of the current cycle: on a
\* State whose last two alignments are below 0.3, a cycle whose winner has
\* alignment below 0.3 appends a ParadoxMarker before returning, and on a
\* State with fewer than two entries no cycle appends one
C30_CurrentCycleCountsInDetection ==
    MeasuredText =>
        /\ Newest(state.alignment_history) = last.metrics.Stereoscopic_alignment
        /\ (TwoLowBefore /\ last.metrics.Stereoscopic_alignment < 300) => MarkerAppended
        /\ Len(last.pre.alignment_history) < 2 =>
               state.paradox_markers = last.pre.paradox_markers
        /\ MarkerAppended <=>
               \/ LastThreeBelow(state.alignment_history, 300)
               \/ /\ Len(state.alignment_history) >= 3
                  /\ LastThreeAbove(state.gap_max_history, 1500)
        /\ MarkerAppended \/ state.paradox_markers = last.pre.paradox_markers

\* the third cycle of a session: two low alignments were recorded, the gap
\* stays small, the winner is misaligned again and the marker is appended
C30_ThirdLowCycleDetected ==
    /\ MeasuredText
    /\ Len(last.pre.alignment_history) = 2
    /\ TwoLowBefore
    /\ last.metrics.Stereoscopic_alignment < 300
    /\ ~ LastThreeAbove(state.gap_max_history, 1500)
    /\ MarkerAppended
    /\ last.pre.paradox_markers = <<>>

=============================================================================
